---- MODULE Spec2Model ----
(***************************************************************************)
(* A model of the media pipeline of obscurecurator: the processing         *)
(* coordinator (media_processor/processor_manager.py), the scene segmenter *)
(* and feature-extraction orchestrator (media_processor/                   *)
(* segment_processor.py), the operator commands that reset the store       *)
(* (cli-manager.py) and the retrieval layer (media_processor/              *)
(* segment_selector.py), over one shared relational store.                 *)
(***************************************************************************)
EXTENDS Integers, Sequences, FiniteSets, TLC

(***************************************************************************)
(* Bounds of the model.                                                    *)
(***************************************************************************)
MaxShots == 3        \* shots of a video of the scene-detection study
MaxFiles == 2        \* media files on disk
MaxErrors == 2       \* failures injected per file / per segment
MaxRuns == 2         \* files one worker handles before enqueue is cut off
MaxResets == 1       \* reset commands an operator issues
MaxQueries == 1      \* retrieval calls issued
MaxQueryTicks == 3   \* clock ticks the store may take to answer one query

(***************************************************************************)
(* Program constants.                                                      *)
(***************************************************************************)
CLIP_MIN_DURATION == 1        \* config.py: seconds
CLIP_MAX_DURATION == 15       \* config.py: seconds
SamplesPerSecond == 6         \* detect_scenes: sample_interval = max(1, int(fps / 6))
CallbackEvery == 20           \* detect_scenes: i % (sample_interval * 20) == 0
CheckpointParts == 20         \* _update_scene_progress: total_frames // 20
SceneThresholdPct == 15       \* detect_scenes: diff_score > 0.15
MaxErrorLen == 500            \* str(e)[:500]
RecentLimit == 10             \* len(self.last_segments) > 10

Max2(a, b) == IF a >= b THEN a ELSE b
Min2(a, b) == IF a <= b THEN a ELSE b
Abs(a) == IF a >= 0 THEN a ELSE -a
Last(s) == s[Len(s)]

(***************************************************************************)
(* The frame source.  A video is a run of shots; every frame of a shot has *)
(* the shot's look.  `readable` is the number of frames cap.read() can     *)
(* deliver; frame_count is what CAP_PROP_FRAME_COUNT reports.              *)
(***************************************************************************)
RECURSIVE SumLens(_)
SumLens(shots) == IF shots = <<>> THEN 0 ELSE Head(shots).len + SumLens(Tail(shots))

FrameCount(v) == SumLens(v.shots)

RECURSIVE LookIn(_, _)
LookIn(shots, f) ==
  IF f < Head(shots).len THEN Head(shots).look
  ELSE LookIn(Tail(shots), f - Head(shots).len)

LookAt(v, f) == LookIn(v.shots, f)

CanRead(v, f) == f >= 0 /\ f < v.readable /\ f < FrameCount(v)

NoFrame == 0

\* np.count_nonzero(frame_diff) / frame_diff.size, in percent: the share of
\* pixels that differ by more than 30 between two downsampled grey frames.
DiffPct(a, b) == IF a = b THEN 0 ELSE 10 * Abs(a - b)

(***************************************************************************)
(* detect_scenes                                                           *)
(***************************************************************************)
SampleInterval(fps) == Max2(1, fps \div SamplesPerSecond)

\* Lines 66-80: the reference frame before the resume point, and the start
\* frame rounded down to a multiple of the sample interval.
ScanInit(v, start_frame) ==
  LET iv == SampleInterval(v.fps) IN
  [ i |-> (start_frame \div iv) * iv,
    prev |-> IF start_frame > 0 /\ start_frame >= iv /\ CanRead(v, start_frame - iv)
             THEN LookAt(v, start_frame - iv) ELSE NoFrame,
    changes |-> <<>> ]

\* Lines 83-125: the frame loop, run up to and including the next sampled
\* frame at which the progress callback is called, or to the end of the loop.
RECURSIVE ScanToCallback(_, _, _)
ScanToCallback(v, st, stop) ==
  LET iv == SampleInterval(v.fps) IN
  IF st.i >= FrameCount(v) \/ stop \/ ~CanRead(v, st.i)
  THEN [st |-> st, ended |-> TRUE, frame |-> -1]
  ELSE LET gray == LookAt(v, st.i)
           d == IF st.prev = NoFrame THEN 0 ELSE DiffPct(gray, st.prev)
           nst == [ i |-> st.i + iv,
                    prev |-> gray,
                    changes |-> IF st.prev # NoFrame /\ d > SceneThresholdPct
                                THEN Append(st.changes, <<st.i, d>>)
                                ELSE st.changes ]
       IN IF st.i % (iv * CallbackEvery) = 0
          THEN [st |-> nst, ended |-> FALSE, frame |-> st.i]
          ELSE ScanToCallback(v, nst, stop)

MidScenes(changes) ==
  [k \in 1..(Len(changes) - 1) |-> <<changes[k][1], changes[k + 1][1], changes[k + 1][2]>>]

\* A grouping that gives a scene the score of the boundary that starts it.
GroupScenesScoredByStart(scenes, changes, frame_count) ==
  IF changes = <<>> THEN (IF scenes = <<>> THEN << <<0, frame_count, 0>> >> ELSE scenes)
  ELSE scenes \o << <<0, changes[1][1], 0>> >>
         \o [k \in 1..(Len(changes) - 1) |-> <<changes[k][1], changes[k + 1][1], changes[k][2]>>]
         \o << <<Last(changes)[1], frame_count, Last(changes)[2]>> >>

\* Lines 127-169: grouping the detected changes into scenes, merging with the
\* scenes of the checkpoint.
GroupScenes(scenes, changes, frame_count) ==
  IF changes = <<>> /\ scenes = <<>> THEN << <<0, frame_count, 0>> >>
  ELSE IF scenes = <<>>
  THEN << <<0, changes[1][1], changes[1][2]>> >> \o MidScenes(changes)
         \o << <<Last(changes)[1], frame_count, 0>> >>
  ELSE IF changes = <<>> THEN scenes
  ELSE IF changes[1][1] > Last(scenes)[2]
  THEN [scenes EXCEPT ![Len(scenes)] = <<@[1], changes[1][1], @[3]>>]
         \o MidScenes(changes) \o << <<Last(changes)[1], frame_count, 0>> >>
  ELSE scenes \o MidScenes(changes) \o << <<Last(changes)[1], frame_count, 0>> >>

RECURSIVE ScanAll(_, _, _, _)
ScanAll(v, st, stop, cbs) ==
  LET r == ScanToCallback(v, st, stop) IN
  IF r.ended THEN [st |-> r.st, cbs |-> cbs]
  ELSE ScanAll(v, r.st, stop, Append(cbs, r.frame))

\* The whole of detect_scenes on an opened video: the scenes it returns and
\* the progress callbacks (frame, scenes) it makes, in order.  The callbacks
\* of the loop carry the list `scenes` as it is during the loop, which is the
\* list passed in; only the final callback carries the grouped scenes.
detect_scenes(v, start_frame, existing_scenes, stop) ==
  LET a == ScanAll(v, ScanInit(v, start_frame), stop, <<>>)
      scenes == GroupScenes(existing_scenes, a.st.changes, FrameCount(v))
  IN [ scenes |-> scenes,
       callbacks |-> [k \in 1..Len(a.cbs) |->
                         [frame |-> a.cbs[k], scenes |-> existing_scenes]]
                     \o << [frame |-> FrameCount(v), scenes |-> scenes] >> ]

\* _update_scene_progress, line 254: does this callback write a checkpoint?
CheckpointDue(current_frame, total_frames, scenes) ==
  current_frame % Max2(1, total_frames \div CheckpointParts) = 0 \/ Len(scenes) > 0

\* pickle.dumps({'scenes': scenes}) and pickle.loads(data).get('scenes', [])
PickleScenes(scenes) == [scenes |-> scenes]
UnpickleScenes(data) == data.scenes

(***************************************************************************)
(* create_segments_from_scenes: the (start, end, score) triples handed to  *)
(* _create_segment, in order.                                              *)
(***************************************************************************)
RECURSIVE SplitSceneDropsTail(_, _, _, _)
SplitSceneDropsTail(seg_start, scene_end, score, max_frames) ==
  IF seg_start + max_frames > scene_end THEN <<>>
  ELSE << <<seg_start, seg_start + max_frames, score>> >>
       \o SplitSceneDropsTail(seg_start + max_frames, scene_end, score, max_frames)

RECURSIVE SplitScene(_, _, _, _)
SplitScene(seg_start, scene_end, score, max_frames) ==
  IF seg_start >= scene_end THEN <<>>
  ELSE << <<seg_start, Min2(seg_start + max_frames, scene_end), score>> >>
       \o SplitScene(seg_start + max_frames, scene_end, score, max_frames)

\* A plan that skips short scenes and never splits a long one.
SegmentPlanUnsplit(scenes, fps) ==
  SelectSeq(scenes, LAMBDA sc : sc[2] - sc[1] >= CLIP_MIN_DURATION * fps)

RECURSIVE SegmentPlan(_, _)
SegmentPlan(scenes, fps) ==
  IF scenes = <<>> THEN <<>>
  ELSE LET sc == Head(scenes)
           min_frames == CLIP_MIN_DURATION * fps
           max_frames == CLIP_MAX_DURATION * fps
       IN (IF sc[2] - sc[1] < min_frames THEN <<>>
           ELSE IF sc[2] - sc[1] > max_frames
                THEN SplitScene(sc[1], sc[2], sc[3], max_frames)
                ELSE <<sc>>)
          \o SegmentPlan(Tail(scenes), fps)

Range(s) == {s[k] : k \in DOMAIN s}
SegmentKeys(plan) == {<<t[1], t[2]>> : t \in Range(plan)}

(***************************************************************************)
(* The embedding collaborator: FeatureExtractor.extract_frame_features on  *)
(* a frame, as a function of the frame's look.                             *)
(***************************************************************************)
ConceptList == <<"daytime", "water", "indoor", "urban">>
Concepts == {ConceptList[k] : k \in DOMAIN ConceptList}

ConceptScore(look, c) ==
  IF look = 1 THEN (CASE c = "daytime" -> 85 [] c = "water" -> 92
                      [] c = "indoor" -> 40 [] OTHER -> 30)
  ELSE IF look = 3 THEN (CASE c = "daytime" -> 20 [] c = "water" -> 45
                           [] c = "indoor" -> 70 [] OTHER -> 60)
  ELSE (CASE c = "daytime" -> 10 [] c = "water" -> 50
          [] c = "indoor" -> 30 [] OTHER -> 20)

ClipEmbedding(look) == look
ColorHistogram(look) == 5 - look

(***************************************************************************)
(* State.                                                                  *)
(***************************************************************************)
VARIABLES
  video,             \* the frame source: path -> video
  media_files,       \* table media_files, keyed by path
  segments,          \* table video_segments, id = index
  features,          \* table segment_features, in insertion order
  tags,              \* table tags, in insertion order
  checkpoints,       \* table processing_checkpoints, in insertion order
  processing_queue,  \* ProcessorManager.processing_queue, per manager
  is_processing,     \* ProcessorManager.is_processing
  stop_requested,    \* ProcessorManager.stop_requested
  total_files,       \* ProcessorManager.total_files
  processed_files,   \* ProcessorManager.processed_files
  worker,            \* the manager's processing thread: position and locals
  last_segments,     \* SegmentSelector.last_segments
  query,             \* the retrieval call in flight and the last result
  resets,            \* reset commands issued so far
  scn                \* the scene-detection study: cold run against resumed run

storeVars == <<media_files, segments, features, tags, checkpoints>>
mgrVars == <<processing_queue, is_processing, stop_requested, total_files,
             processed_files, worker>>
selVars == <<last_segments, query>>
vars == <<video, storeVars, mgrVars, selVars, resets, scn>>

Paths == 1..MaxFiles
Managers == {1, 2}

PENDING == "pending"
IN_PROGRESS == "in_progress"
COMPLETED == "completed"
FAILED == "failed"

NoError == -1     \* last_error IS NULL; otherwise the length of the message

\* "Could not open video {file_path}": the message grows with the path.
OpenErrorLen(p) == IF p = 1 THEN 40 ELSE 600
\* "Failed to extract features for segment {segment.id}"
ExtractErrorLen == 45
\* len("scene_detection: ")
StagePrefixLen == 17

Truncate(len) == Min2(len, MaxErrorLen)

\* MediaFile(path=..., processing_status=PENDING) with the column defaults.
NewMediaFile ==
  [ processing_status |-> PENDING,
    scene_detection_complete |-> FALSE,
    features_extraction_complete |-> FALSE,
    processed |-> FALSE,
    scene_detection_progress |-> 0,
    feature_extraction_progress |-> 0,
    last_error |-> NoError,
    error_count |-> 0 ]

IdleScan == [i |-> 0, prev |-> NoFrame, changes |-> <<>>]

IdleWorker ==
  [ pc |-> "dead", file |-> 0,
    scan |-> IdleScan, existing |-> <<>>, plan |-> <<>>, segs |-> <<>>,
    k |-> 0, exc |-> NoError ]

IdleQuery ==
  [pc |-> "idle", kind |-> "none", arg |-> 0, limit |-> 0, wait |-> 0, result |-> <<>>,
   calls |-> 0]

IdleScn == [phase |-> "off"]

\* The videos the pipeline is run on: the first file has two shots (a scene
\* change at frame 2, two segments), the others one shot (one segment).
PipelineVideo(p) ==
  IF p = 1
  THEN [fps |-> 1, shots |-> <<[len |-> 2, look |-> 1], [len |-> 2, look |-> 3]>>,
        readable |-> 4]
  ELSE [fps |-> 1, shots |-> <<[len |-> 3, look |-> 3]>>, readable |-> 3]

\* ProcessorManager.__init__ and SegmentSelector.__init__ on an empty store
EmptyPipeline ==
  /\ media_files = <<>>
  /\ segments = <<>>
  /\ features = <<>>
  /\ tags = <<>>
  /\ checkpoints = <<>>
  /\ processing_queue = [m \in Managers |-> <<>>]
  /\ is_processing = [m \in Managers |-> FALSE]
  /\ stop_requested = [m \in Managers |-> FALSE]
  /\ total_files = [m \in Managers |-> 0]
  /\ processed_files = [m \in Managers |-> 0]
  /\ worker = [m \in Managers |-> IdleWorker]
  /\ last_segments = <<>>
  /\ query = IdleQuery
  /\ resets = 0

PipelineInit ==
  /\ video = [p \in Paths |-> PipelineVideo(p)]
  /\ EmptyPipeline

Init == PipelineInit /\ scn = IdleScn

(***************************************************************************)
(* Coordinator operations.                                                 *)
(***************************************************************************)
\* An enqueue that appends without looking at the queue.
EnqueuedUnchecked(q, p) == Append(q, p)

\* process_file under the lock: the queue after the call.
Enqueued(q, p) == IF p \in Range(q) THEN q ELSE Append(q, p)

RECURSIVE EnqueuedAll(_, _)
EnqueuedAll(q, ps) ==
  IF ps = <<>> THEN q ELSE EnqueuedAll(Enqueued(q, Head(ps)), Tail(ps))

\* _start_processing_thread
StartThread(m) ==
  /\ is_processing' = [is_processing EXCEPT ![m] = TRUE]
  /\ stop_requested' = [stop_requested EXCEPT ![m] = FALSE]
  /\ worker' = [worker EXCEPT ![m] = [IdleWorker EXCEPT !.pc = "start"]]

\* The paths ps are handed to process_file one after the other; a thread is
\* started by the first call that appends while is_processing is False.
EnqueueAndStart(m, ps, always) ==
  LET q == EnqueuedAll(processing_queue[m], ps) IN
  /\ processing_queue' = [processing_queue EXCEPT ![m] = q]
  /\ IF ~is_processing[m] /\ (always \/ q # processing_queue[m])
     THEN StartThread(m)
     ELSE UNCHANGED <<is_processing, stop_requested, worker>>
  /\ UNCHANGED <<total_files, processed_files>>

process_file(m, p) ==
  /\ processed_files[m] < MaxRuns
  /\ EnqueueAndStart(m, <<p>>, FALSE)
  /\ UNCHANGED <<video, storeVars, selVars, resets, scn>>

RECURSIVE SeqOfSet(_)
SeqOfSet(S) ==
  IF S = {} THEN <<>>
  ELSE LET x == CHOOSE y \in S : \A z \in S : y <= z IN <<x>> \o SeqOfSet(S \ {x})

\* process_all: scan_existing hands every file on disk to process_file, then
\* the thread is started if it is not running.
process_all(m) ==
  /\ processed_files[m] < MaxRuns
  /\ EnqueueAndStart(m, SeqOfSet(Paths), TRUE)
  /\ UNCHANGED <<video, storeVars, selVars, resets, scn>>

FailedPaths == {p \in DOMAIN media_files : media_files[p].processing_status = FAILED}

\* resume_failed: every FAILED file is handed to process_file.
resume_failed(m) ==
  /\ processed_files[m] < MaxRuns
  /\ FailedPaths # {}
  /\ EnqueueAndStart(m, SeqOfSet(FailedPaths), FALSE)
  /\ UNCHANGED <<video, storeVars, selVars, resets, scn>>

stop_processing(m) ==
  /\ ~stop_requested[m]
  /\ stop_requested' = [stop_requested EXCEPT ![m] = TRUE]
  /\ UNCHANGED <<video, storeVars, selVars, resets, scn, processing_queue,
                 is_processing, total_files, processed_files, worker>>

(***************************************************************************)
(* The processing thread.  One step is one transaction of the session (up  *)
(* to its commit) together with the reads that precede it; attributes of   *)
(* the ORM objects are expired by every commit and re-read on next access. *)
(***************************************************************************)
WithFile(p, r) ==
  [q \in (DOMAIN media_files) \cup {p} |-> IF q = p THEN r ELSE media_files[q]]

Goto(m, pc) == worker' = [worker EXCEPT ![m].pc = pc]

\* VideoSegmentProcessor.stop_requested: set only by request_stop, which no
\* caller invokes (ProcessorManager.stop_processing does not).
SegmenterStopRequested == FALSE

\* _processing_thread, lines 89-91
thread_start(m) ==
  /\ worker[m].pc = "start"
  /\ total_files' = [total_files EXCEPT ![m] = Len(processing_queue[m])]
  /\ processed_files' = [processed_files EXCEPT ![m] = 0]
  /\ Goto(m, "loop")
  /\ UNCHANGED <<video, storeVars, selVars, resets, scn, processing_queue,
                 is_processing, stop_requested>>

\* _processing_thread, lines 93-100: one turn of the while loop.
thread_next(m) ==
  /\ worker[m].pc = "loop"
  /\ IF stop_requested[m]
     THEN /\ Goto(m, "dead")
          /\ UNCHANGED <<processing_queue, is_processing>>
     ELSE IF processing_queue[m] = <<>>
     THEN /\ is_processing' = [is_processing EXCEPT ![m] = FALSE]
          /\ Goto(m, "dead")
          /\ UNCHANGED processing_queue
     ELSE /\ worker' = [worker EXCEPT ![m].pc = "read",
                                      ![m].file = Head(processing_queue[m])]
          /\ processing_queue' = [processing_queue EXCEPT ![m] = Tail(@)]
          /\ UNCHANGED is_processing
  /\ UNCHANGED <<video, storeVars, selVars, resets, scn, stop_requested,
                 total_files, processed_files>>

\* A skip that puts the finished file back to PENDING and processes it again.
ReprocessCompleted(m) ==
  /\ media_files' = [media_files EXCEPT ![worker[m].file].processing_status = PENDING]
  /\ Goto(m, "lease")

\* _process_file_safe, lines 141-144: the file is COMPLETED; return.
SkipCompleted(m) ==
  /\ Goto(m, "after")
  /\ UNCHANGED media_files

\* A retry that also forgets that the scene stage was finished.
RetryFromScratch(p) ==
  [media_files EXCEPT ![p].processing_status = PENDING,
                      ![p].last_error = NoError,
                      ![p].scene_detection_complete = FALSE]

\* _process_file_safe, lines 146-151: a FAILED file is put back to PENDING
\* with last_error = None; its stage flags and error_count are left alone.
RetryFailed(p) ==
  [media_files EXCEPT ![p].processing_status = PENDING,
                      ![p].last_error = NoError]

\* _process_file_safe, lines 128-151: look the file up; create, skip or reset.
file_lookup(m) ==
  LET p == worker[m].file IN
  /\ worker[m].pc = "read"
  /\ IF p \notin DOMAIN media_files
     THEN /\ media_files' = WithFile(p, NewMediaFile)
          /\ Goto(m, "lease")
     ELSE IF media_files[p].processing_status = COMPLETED
     THEN SkipCompleted(m)
     ELSE IF media_files[p].processing_status = FAILED
     THEN /\ media_files' = RetryFailed(p)
          /\ Goto(m, "lease")
     ELSE /\ Goto(m, "lease")
          /\ UNCHANGED media_files
  /\ UNCHANGED <<video, segments, features, tags, checkpoints, selVars, resets, scn,
                 processing_queue, is_processing, stop_requested, total_files,
                 processed_files>>

\* _process_file_safe, lines 154-156
file_lease(m) ==
  LET p == worker[m].file IN
  /\ worker[m].pc = "lease"
  /\ media_files' = [media_files EXCEPT ![p].processing_status = IN_PROGRESS]
  /\ Goto(m, "stage1")
  /\ UNCHANGED <<video, segments, features, tags, checkpoints, selVars, resets, scn,
                 processing_queue, is_processing, stop_requested, total_files,
                 processed_files>>

SegmentIds == 1..Len(segments)

\* _run_feature_extraction, lines 281-284: ids of the file's segments with
\* features_extracted = False, in id order.
SegmentsToExtract(p) ==
  SeqOfSet({i \in SegmentIds : segments[i].source_file = p
                               /\ ~segments[i].features_extracted})

\* Lines 187-191
MarkCompleted(p) ==
  [media_files EXCEPT ![p].processing_status = COMPLETED, ![p].processed = TRUE]

\* Lines 174-191 evaluated on one read of the file's flags: enter the
\* feature stage, or mark the file completed, or fall through.
AfterSceneStage(m) ==
  LET p == worker[m].file
      f == media_files[p]
  IN IF f.scene_detection_complete /\ ~f.features_extraction_complete
     THEN /\ worker' = [worker EXCEPT
                          ![m].segs = SegmentsToExtract(p), ![m].k = 1,
                          ![m].pc = IF SegmentsToExtract(p) = <<>>
                                    THEN "fe_finish" ELSE "fe_mark"]
          /\ UNCHANGED media_files
     ELSE IF f.scene_detection_complete /\ f.features_extraction_complete
     THEN /\ media_files' = MarkCompleted(p)
          /\ Goto(m, "after")
     ELSE /\ Goto(m, "after")
          /\ UNCHANGED media_files

\* _run_scene_detection, lines 213-216: the checkpoints a
\* ORDER BY frame_number DESC LIMIT 1 may return.
LatestCheckpoints(p) ==
  {c \in DOMAIN checkpoints :
      /\ checkpoints[c].media_file = p
      /\ \A d \in DOMAIN checkpoints :
            checkpoints[d].media_file = p =>
              checkpoints[d].frame_number <= checkpoints[c].frame_number}

\* Lines 161-163, 213-229 and detect_scenes up to its frame loop: the stage
\* is entered when scene_detection_complete is False; the video may fail to
\* open (IOError).
scene_stage_enter(m) ==
  LET p == worker[m].file IN
  /\ worker[m].pc = "stage1"
  /\ IF media_files[p].scene_detection_complete
     THEN AfterSceneStage(m)
     ELSE /\ UNCHANGED media_files
          /\ \/ /\ media_files[p].error_count < MaxErrors
                /\ worker' = [worker EXCEPT ![m].exc = OpenErrorLen(p),
                                            ![m].pc = "stage_err"]
             \/ /\ LatestCheckpoints(p) = {}
                /\ worker' = [worker EXCEPT ![m].scan = ScanInit(video[p], 0),
                                            ![m].existing = <<>>,
                                            ![m].pc = "sd_scan"]
             \/ \E c \in LatestCheckpoints(p) :
                  worker' = [worker EXCEPT
                     ![m].scan = ScanInit(video[p], checkpoints[c].frame_number),
                     ![m].existing = UnpickleScenes(checkpoints[c].checkpoint_data),
                     ![m].pc = "sd_scan"]
  /\ UNCHANGED <<video, segments, features, tags, checkpoints, selVars, resets, scn,
                 processing_queue, is_processing, stop_requested, total_files,
                 processed_files>>

\* _update_scene_progress: the progress column and, when due, a new
\* checkpoint row, committed together.
Progressed(p, current_frame, total_frames) ==
  [media_files EXCEPT ![p].scene_detection_progress =
     IF total_frames > 0 THEN (current_frame * 100) \div total_frames ELSE 0]

\* ProcessingCheckpoint(media_file_id, 'scene_detection', frame_number, data)
CheckpointRow(p, current_frame, scenes) ==
  [media_file |-> p, frame_number |-> current_frame,
   checkpoint_data |-> PickleScenes(scenes)]

Checkpointed(p, current_frame, total_frames, scenes) ==
  IF CheckpointDue(current_frame, total_frames, scenes)
  THEN Append(checkpoints, CheckpointRow(p, current_frame, scenes))
  ELSE checkpoints

\* detect_scenes, lines 83-175, from one progress callback to the next; after
\* the final callback create_segments_from_scenes opens the video (IOError)
\* and plans the segments.
scene_scan(m) ==
  LET p == worker[m].file
      v == video[p]
      r == ScanToCallback(v, worker[m].scan, SegmenterStopRequested)
      scenes == GroupScenes(worker[m].existing, r.st.changes, FrameCount(v))
      plan == SegmentPlan(scenes, v.fps)
  IN
  /\ worker[m].pc = "sd_scan"
  /\ IF ~r.ended
     THEN /\ media_files' = Progressed(p, r.frame, FrameCount(v))
          /\ checkpoints' = Checkpointed(p, r.frame, FrameCount(v), worker[m].existing)
          /\ worker' = [worker EXCEPT ![m].scan = r.st]
     ELSE /\ media_files' = Progressed(p, FrameCount(v), FrameCount(v))
          /\ checkpoints' = Checkpointed(p, FrameCount(v), FrameCount(v), scenes)
          /\ \/ /\ media_files[p].error_count < MaxErrors
                /\ worker' = [worker EXCEPT ![m].scan = IdleScan, ![m].existing = <<>>,
                                            ![m].exc = OpenErrorLen(p),
                                            ![m].pc = "stage_err"]
             \/ worker' = [worker EXCEPT ![m].scan = IdleScan, ![m].existing = <<>>,
                                         ![m].plan = plan, ![m].k = 1,
                                         ![m].pc = IF plan = <<>> THEN "sd_done"
                                                   ELSE "seg_check"]
  /\ UNCHANGED <<video, segments, features, tags, selVars, resets, scn,
                 processing_queue, is_processing, stop_requested, total_files,
                 processed_files>>

SegmentExists(p, start_frame, end_frame) ==
  \E i \in SegmentIds : /\ segments[i].source_file = p
                        /\ segments[i].start_frame = start_frame
                        /\ segments[i].end_frame = end_frame

NextPlanned(m) ==
  IF worker[m].k = Len(worker[m].plan)
  THEN [worker EXCEPT ![m].plan = <<>>, ![m].k = 0, ![m].pc = "sd_done"]
  ELSE [worker EXCEPT ![m].k = @ + 1, ![m].pc = "seg_check"]

\* _create_segment, lines 244-252: the query for an existing row.
segment_check(m) ==
  LET t == worker[m].plan[worker[m].k] IN
  /\ worker[m].pc = "seg_check"
  /\ IF SegmentExists(worker[m].file, t[1], t[2])
     THEN worker' = NextPlanned(m)
     ELSE Goto(m, "seg_insert")
  /\ UNCHANGED <<video, storeVars, selVars, resets, scn, processing_queue,
                 is_processing, stop_requested, total_files, processed_files>>

NewSegment(p, t) ==
  [ source_file |-> p, start_frame |-> t[1], end_frame |-> t[2], scene_score |-> t[3],
    processing_status |-> PENDING, features_extracted |-> FALSE, processed |-> FALSE,
    last_error |-> NoError, error_count |-> 0 ]

\* _create_segment, lines 255-270: the insert and its commit.
segment_insert(m) ==
  LET t == worker[m].plan[worker[m].k] IN
  /\ worker[m].pc = "seg_insert"
  /\ segments' = Append(segments, NewSegment(worker[m].file, t))
  /\ worker' = NextPlanned(m)
  /\ UNCHANGED <<video, media_files, features, tags, checkpoints, selVars, resets, scn,
                 processing_queue, is_processing, stop_requested, total_files,
                 processed_files>>

\* _process_file_safe, lines 164-166
scene_stage_done(m) ==
  LET p == worker[m].file IN
  /\ worker[m].pc = "sd_done"
  /\ media_files' = [media_files EXCEPT ![p].scene_detection_complete = TRUE,
                                        ![p].scene_detection_progress = 100]
  /\ Goto(m, "stage2")
  /\ UNCHANGED <<video, segments, features, tags, checkpoints, selVars, resets, scn,
                 processing_queue, is_processing, stop_requested, total_files,
                 processed_files>>

\* _process_file_safe, line 174 after the scene stage ran
feature_stage_enter(m) ==
  /\ worker[m].pc = "stage2"
  /\ AfterSceneStage(m)
  /\ UNCHANGED <<video, segments, features, tags, checkpoints, selVars, resets, scn,
                 processing_queue, is_processing, stop_requested, total_files,
                 processed_files>>

(***************************************************************************)
(* Feature extraction of one segment.                                      *)
(***************************************************************************)
RECURSIVE SumOver(_, _)
SumOver(S, f) ==
  IF S = {} THEN 0
  ELSE LET x == CHOOSE y \in S : TRUE IN f[x] + SumOver(S \ {x}, f)

\* extract_segment_features, line 284
FeatureInterval(start_frame, end_frame) == Max2(1, (end_frame - start_frame) \div 5)

\* FeatureExtractor.extract_segment_features, line 168: range(start, end, interval)
SampleFrames(start_frame, end_frame) ==
  {f \in start_frame..(end_frame - 1) :
     (f - start_frame) % FeatureInterval(start_frame, end_frame) = 0}

\* FeatureExtractor.extract_segment_features, lines 162-213: None when no
\* frame could be read, else the means over the frames read (in hundredths).
SegmentFeatures(v, start_frame, end_frame) ==
  LET got == {f \in SampleFrames(start_frame, end_frame) : CanRead(v, f)}
      n == Cardinality(got)
  IN IF n = 0 THEN [ok |-> FALSE]
     ELSE [ ok |-> TRUE,
            clip_embedding |->
              (100 * SumOver(got, [f \in got |-> ClipEmbedding(LookAt(v, f))])) \div n,
            color_histogram |->
              (100 * SumOver(got, [f \in got |-> ColorHistogram(LookAt(v, f))])) \div n,
            concept_scores |->
              [c \in Concepts |->
                 (100 * SumOver(got, [f \in got |-> ConceptScore(LookAt(v, f), c)])) \div n] ]

RECURSIVE ConceptTagsFromFifty(_, _, _)
ConceptTagsFromFifty(sid, scores, k) ==
  IF k > Len(ConceptList) THEN <<>>
  ELSE (IF scores[ConceptList[k]] >= 50 * 100
        THEN << [segment_id |-> sid, tag_type |-> "concept",
                 tag_value |-> ConceptList[k], confidence |-> scores[ConceptList[k]]] >>
        ELSE <<>>) \o ConceptTagsFromFifty(sid, scores, k + 1)

\* Lines 318-326: a `concept` tag for every score above 50.
RECURSIVE ConceptTags(_, _, _)
ConceptTags(sid, scores, k) ==
  IF k > Len(ConceptList) THEN <<>>
  ELSE (IF scores[ConceptList[k]] > 50 * 100
        THEN << [segment_id |-> sid, tag_type |-> "concept",
                 tag_value |-> ConceptList[k], confidence |-> scores[ConceptList[k]]] >>
        ELSE <<>>) \o ConceptTags(sid, scores, k + 1)

\* The place of a concept in sorted(items, key=score, reverse=True): the sort
\* is stable, so equal scores keep the order of the dictionary.
ConceptRank(scores, k) ==
  Cardinality({j \in DOMAIN ConceptList :
                 \/ scores[ConceptList[j]] > scores[ConceptList[k]]
                 \/ scores[ConceptList[j]] = scores[ConceptList[k]] /\ j < k})

\* Lines 329-340: the three highest-scoring concepts as `dominant_concept` tags.
DominantTags(sid, scores) ==
  LET top == {k \in DOMAIN ConceptList : ConceptRank(scores, k) < 3}
      at(r) == CHOOSE k \in top : ConceptRank(scores, k) = r
  IN [r \in 1..Cardinality(top) |->
        [segment_id |-> sid, tag_type |-> "dominant_concept",
         tag_value |-> ConceptList[at(r - 1)],
         confidence |-> scores[ConceptList[at(r - 1)]]]]

FeatureRows(sid, ft) ==
  << [segment_id |-> sid, feature_type |-> "visual", feature_name |-> "clip_embedding",
      feature_value |-> ft.clip_embedding],
     [segment_id |-> sid, feature_type |-> "visual", feature_name |-> "color_histogram",
      feature_value |-> ft.color_histogram] >>

FinishSegments(m) ==
  [worker EXCEPT ![m].segs = <<>>, ![m].k = 0, ![m].pc = "fe_finish"]

\* _run_feature_extraction, lines 292-303: the stop check and the commit that
\* marks the segment IN_PROGRESS.
segment_begin(m) ==
  LET sid == worker[m].segs[worker[m].k] IN
  /\ worker[m].pc = "fe_mark"
  /\ IF stop_requested[m]
     THEN /\ worker' = FinishSegments(m)
          /\ UNCHANGED segments
     ELSE /\ segments' = [segments EXCEPT ![sid].processing_status = IN_PROGRESS]
          /\ Goto(m, "fe_extract")
  /\ UNCHANGED <<video, media_files, features, tags, checkpoints, selVars, resets, scn,
                 processing_queue, is_processing, stop_requested, total_files,
                 processed_files>>

\* An except branch that marks the segment FAILED without counting the error.
ExtractionFailedUncounted(sid) ==
  [segments EXCEPT ![sid].processing_status = FAILED,
                   ![sid].last_error = Truncate(ExtractErrorLen)]

\* extract_segment_features, lines 348-358: the except branch.  It records
\* the failure and returns False; it does not raise.
ExtractionFailed(sid) ==
  [segments EXCEPT ![sid].processing_status = FAILED,
                   ![sid].last_error = Truncate(ExtractErrorLen),
                   ![sid].error_count = @ + 1]

\* A rollback that leaves the rows added to the session in the table.
RollbackKeepsAdded(persisted, added) == persisted \o added

\* session.rollback(), line 350: the rows added to the session since the last
\* commit are discarded; the table holds what was committed.
Rollback(persisted, added) == persisted

\* The places of the try block at which an attempt that got features can
\* still fail: after the first feature row was added (1: serializing or
\* adding the next row raises) or at the commit, after all rows were added
\* (2).
FailurePoints == {1, 2}

\* VideoSegmentProcessor.extract_segment_features, lines 272-358
extract_segment_features(m) ==
  LET sid == worker[m].segs[worker[m].k]
      sg == segments[sid]
  IN
  /\ worker[m].pc = "fe_extract"
  /\ \E ft \in {SegmentFeatures(video[sg.source_file], sg.start_frame, sg.end_frame)} :
       \/ /\ ft.ok
          /\ features' = features \o FeatureRows(sid, ft)
          /\ tags' = tags \o ConceptTags(sid, ft.concept_scores, 1)
                          \o DominantTags(sid, ft.concept_scores)
          /\ UNCHANGED segments
       \/ /\ ~ft.ok
          /\ segments' = ExtractionFailed(sid)
          /\ features' = Rollback(features, <<>>)
          /\ tags' = Rollback(tags, <<>>)
       \/ /\ ft.ok /\ sg.error_count < MaxErrors
          /\ segments' = ExtractionFailed(sid)
          /\ \E n \in FailurePoints :
               /\ features' = Rollback(features, SubSeq(FeatureRows(sid, ft), 1, n))
               /\ tags' = Rollback(tags, IF n = 2
                                         THEN ConceptTags(sid, ft.concept_scores, 1)
                                                \o DominantTags(sid, ft.concept_scores)
                                         ELSE <<>>)
  /\ Goto(m, "fe_done")
  /\ UNCHANGED <<video, media_files, checkpoints, selVars, resets, scn,
                 processing_queue, is_processing, stop_requested, total_files,
                 processed_files>>

\* _run_feature_extraction, lines 308-313: "Mark segment as done", run after
\* extract_segment_features returned, whatever it returned.
SegmentDone(sid) ==
  [segments EXCEPT ![sid].processing_status = COMPLETED,
                   ![sid].features_extracted = TRUE,
                   ![sid].processed = TRUE]

\* _run_feature_extraction, lines 308-319
segment_end(m) ==
  LET sid == worker[m].segs[worker[m].k]
      p == worker[m].file
  IN
  /\ worker[m].pc = "fe_done"
  /\ segments' = SegmentDone(sid)
  /\ media_files' = [media_files EXCEPT ![p].feature_extraction_progress =
                        (worker[m].k * 100) \div Len(worker[m].segs)]
  /\ worker' = IF worker[m].k = Len(worker[m].segs) THEN FinishSegments(m)
               ELSE [worker EXCEPT ![m].k = @ + 1, ![m].pc = "fe_mark"]
  /\ UNCHANGED <<video, features, tags, checkpoints, selVars, resets, scn,
                 processing_queue, is_processing, stop_requested, total_files,
                 processed_files>>

\* _process_file_safe, lines 177-179
feature_stage_done(m) ==
  LET p == worker[m].file IN
  /\ worker[m].pc = "fe_finish"
  /\ media_files' = [media_files EXCEPT ![p].features_extraction_complete = TRUE,
                                        ![p].feature_extraction_progress = 100]
  /\ Goto(m, "final")
  /\ UNCHANGED <<video, segments, features, tags, checkpoints, selVars, resets, scn,
                 processing_queue, is_processing, stop_requested, total_files,
                 processed_files>>

\* _process_file_safe, lines 187-191
file_complete(m) ==
  LET p == worker[m].file
      f == media_files[p]
  IN
  /\ worker[m].pc = "final"
  /\ media_files' = IF f.scene_detection_complete /\ f.features_extraction_complete
                    THEN MarkCompleted(p) ELSE media_files
  /\ Goto(m, "after")
  /\ UNCHANGED <<video, segments, features, tags, checkpoints, selVars, resets, scn,
                 processing_queue, is_processing, stop_requested, total_files,
                 processed_files>>

\* _handle_processing_error, lines 330-338, for the scene-detection stage
handle_processing_error(m) ==
  LET p == worker[m].file IN
  /\ worker[m].pc = "stage_err"
  /\ media_files' = [media_files EXCEPT
                       ![p].last_error = Truncate(StagePrefixLen + worker[m].exc),
                       ![p].error_count = @ + 1]
  /\ Goto(m, "file_err")
  /\ UNCHANGED <<video, segments, features, tags, checkpoints, selVars, resets, scn,
                 processing_queue, is_processing, stop_requested, total_files,
                 processed_files>>

\* A file-level handler that puts the file back to PENDING instead of FAILED.
FileFailedRequeues(p, exc) ==
  [media_files EXCEPT ![p].processing_status = PENDING,
                      ![p].last_error = Truncate(exc),
                      ![p].error_count = @ + 1]

\* _process_file_safe, lines 194-206: the file-level handler
FileFailed(p, exc) ==
  [media_files EXCEPT ![p].processing_status = FAILED,
                      ![p].last_error = Truncate(exc),
                      ![p].error_count = @ + 1]

file_failed(m) ==
  LET p == worker[m].file IN
  /\ worker[m].pc = "file_err"
  /\ media_files' = IF p \in DOMAIN media_files THEN FileFailed(p, worker[m].exc)
                    ELSE media_files
  /\ worker' = [worker EXCEPT ![m].exc = NoError, ![m].pc = "after"]
  /\ UNCHANGED <<video, segments, features, tags, checkpoints, selVars, resets, scn,
                 processing_queue, is_processing, stop_requested, total_files,
                 processed_files>>

\* A loop that lets the failure of a file end the thread.
AfterFileEndsOnFailure(m) ==
  [worker EXCEPT ![m].pc =
     IF /\ worker[m].file \in DOMAIN media_files
        /\ media_files[worker[m].file].processing_status = FAILED
     THEN "dead" ELSE "loop"]

\* _processing_thread, lines 102-112: back from _process_file_safe
AfterFile(m) == [worker EXCEPT ![m].pc = "loop"]

file_handled(m) ==
  /\ worker[m].pc = "after"
  /\ processed_files' = [processed_files EXCEPT ![m] = @ + 1]
  /\ worker' = AfterFile(m)
  /\ UNCHANGED <<video, storeVars, selVars, resets, scn, processing_queue,
                 is_processing, stop_requested, total_files>>

WorkerStep(m) ==
  \/ thread_start(m)
  \/ thread_next(m)
  \/ file_lookup(m)
  \/ file_lease(m)
  \/ scene_stage_enter(m)
  \/ scene_scan(m)
  \/ segment_check(m)
  \/ segment_insert(m)
  \/ scene_stage_done(m)
  \/ feature_stage_enter(m)
  \/ segment_begin(m)
  \/ extract_segment_features(m)
  \/ segment_end(m)
  \/ feature_stage_done(m)
  \/ file_complete(m)
  \/ handle_processing_error(m)
  \/ file_failed(m)
  \/ file_handled(m)

CoordinatorOp(m) ==
  \/ \E p \in Paths : process_file(m, p)
  \/ process_all(m)
  \/ resume_failed(m)
  \/ stop_processing(m)

(***************************************************************************)
(* Spec: one coordinator with its processing thread.                       *)
(***************************************************************************)
Next == CoordinatorOp(1) \/ WorkerStep(1)

Spec == Init /\ [][Next]_vars

(***************************************************************************)
(* FairSpec: the coordinator draining its queue (process-all, retry-failed *)
(* and stop), with the processing thread scheduled: a thread that can take *)
(* a step eventually takes one.                                            *)
(***************************************************************************)
NextDrain ==
  \/ process_all(1)
  \/ resume_failed(1)
  \/ stop_processing(1)
  \/ WorkerStep(1)

FairSpec == Init /\ [][NextDrain]_vars /\ WF_vars(WorkerStep(1))

StatusOf(p) == media_files[p].processing_status

\* C1 (as amended): across enqueue, process-all, retry-failed, stop and the
\* worker's steps, every change of a file's processing_status is one of
\* PENDING -> IN_PROGRESS, IN_PROGRESS -> COMPLETED, IN_PROGRESS -> FAILED,
\* or FAILED -> PENDING (the worker taking up a failed file again).
C1_TransitionsWithRetry ==
  [][\A p \in (DOMAIN media_files) \cap (DOMAIN media_files') :
       media_files'[p].processing_status # StatusOf(p) =>
         <<StatusOf(p), media_files'[p].processing_status>> \in
           { <<PENDING, IN_PROGRESS>>, <<IN_PROGRESS, COMPLETED>>,
             <<IN_PROGRESS, FAILED>>, <<FAILED, PENDING>> }]_vars

\* C1 as stated: only PENDING -> IN_PROGRESS, IN_PROGRESS -> COMPLETED and
\* IN_PROGRESS -> FAILED are ever observed.
C1_TransitionsAsStated ==
  [][\A p \in (DOMAIN media_files) \cap (DOMAIN media_files') :
       media_files'[p].processing_status # StatusOf(p) =>
         <<StatusOf(p), media_files'[p].processing_status>> \in
           { <<PENDING, IN_PROGRESS>>, <<IN_PROGRESS, COMPLETED>>,
             <<IN_PROGRESS, FAILED>> }]_vars

\* A file that failed, was taken up again by the worker, and completed.
C1_Witness ==
  \E p \in DOMAIN media_files :
    /\ StatusOf(p) = COMPLETED
    /\ media_files[p].error_count > 0

C9_FailedSegmentIsolated ==
  \A i \in SegmentIds :
    ( /\ worker[1].pc = "fe_finish"
      /\ segments[i].source_file = worker[1].file
      /\ segments[i].error_count > 0 )
    => /\ segments[i].processing_status = FAILED
       /\ ~segments[i].features_extracted
       /\ segments[i].last_error \in 1..MaxErrorLen

\* C10 as stated: a file with features_extraction_complete set has every one
\* of its segments COMPLETED or FAILED.
C10_StageCompleteMeansAllTerminal ==
  \A p \in DOMAIN media_files :
    media_files[p].features_extraction_complete =>
      \A i \in SegmentIds :
        segments[i].source_file = p =>
          segments[i].processing_status \in {COMPLETED, FAILED}

\* C11 as stated: once stop has been requested while the worker scans a file
\* for scenes, the scan ends at the next sampled frame: the segments planned
\* when the scan ends are those of the scene changes found before that frame.
C11_StopEndsScan ==
  [][( /\ stop_requested[1]
       /\ worker[1].pc = "sd_scan"
       /\ worker'[1].pc \in {"seg_check", "sd_done"} )
     => worker'[1].plan =
          SegmentPlan(GroupScenes(worker[1].existing, worker[1].scan.changes,
                                  FrameCount(video[worker[1].file])),
                      video[worker[1].file].fps)]_vars

\* C12: the pending queue of the coordinator holds each file path at most
\* once, whatever enqueue, process-all and retry-failed calls were made.
C12_QueueHasNoDuplicates ==
  \A i, j \in DOMAIN processing_queue[1] :
    processing_queue[1][i] = processing_queue[1][j] => i = j

\* Every file is queued, behind a worker that is busy with a file that is
\* queued again: each further enqueue finds its path in the queue.
C12_Witness ==
  /\ Len(processing_queue[1]) = MaxFiles
  /\ worker[1].pc = "fe_extract"
  /\ worker[1].file \in Range(processing_queue[1])

\* C13 as stated: whenever an enqueue adds a path to the queue while no
\* worker thread is alive, that enqueue starts a worker.
C13_EnqueueStartsWorker ==
  [][( /\ worker[1].pc = "dead"
       /\ Len(processing_queue'[1]) > Len(processing_queue[1]) )
     => worker'[1].pc = "start"]_vars

\* C14 as stated, the part a finite run decides: every FAILED file that a
\* retry puts into the queue is left with a live worker, which is what moves
\* it to PENDING with last_error cleared.
C14_RetriedFileHasWorker ==
  [][\A p \in FailedPaths :
       (p \notin Range(processing_queue[1]) /\ p \in Range(processing_queue'[1]))
         => worker'[1].pc # "dead"]_vars

C30_FailedAttemptLeavesNoRows ==
  [][\A m \in Managers :
       (/\ worker[m].pc = "fe_extract"
        /\ worker'[m].pc = "fe_done"
        /\ segments'[worker[m].segs[worker[m].k]].processing_status = FAILED)
         => (features' = features /\ tags' = tags)]_vars

\* An attempt that got features from the extractor, failed afterwards and
\* left the segment FAILED.
C30_Witness ==
  /\ worker[1].pc = "fe_done"
  /\ LET sg == segments[worker[1].segs[worker[1].k]]
     IN /\ sg.processing_status = FAILED
        /\ SegmentFeatures(video[sg.source_file], sg.start_frame, sg.end_frame).ok

\* C33: the step of _process_file_safe that finds the file COMPLETED returns
\* at once and leaves every row of the store as it was; the thread then only
\* counts the file.
C33_CompletedFileUntouched ==
  [][\A m \in Managers :
       (/\ worker'[m] # worker[m]
        /\ worker[m].pc = "read"
        /\ worker[m].file \in DOMAIN media_files
        /\ StatusOf(worker[m].file) = COMPLETED)
         => (storeVars' = storeVars /\ worker'[m].pc = "after")]_vars

\* The thread is back from a file it skipped: the only file of the store was
\* handled before by this thread without an error, so it was COMPLETED when
\* it was looked up again.
C33_Witness ==
  /\ worker[1].pc = "after"
  /\ DOMAIN media_files = {1}
  /\ worker[1].file = 1
  /\ StatusOf(1) = COMPLETED
  /\ media_files[1].error_count = 0
  /\ processed_files[1] >= 1
  /\ \E i \in SegmentIds : segments[i].source_file = 1

\* get_processing_status, lines 340-350; overall_progress in hundredths of a
\* percent.
get_processing_status(m) ==
  [ is_processing |-> is_processing[m],
    queue_length |-> Len(processing_queue[m]),
    processed_files |-> processed_files[m],
    total_files |-> total_files[m],
    overall_progress |-> IF total_files[m] > 0
                         THEN (processed_files[m] * 10000) \div total_files[m]
                         ELSE 0 ]

\* C36 as stated: in every reachable state the status reports
\* processed_files <= total_files and an overall_progress between 0 and 100
\* percent.
C36_ProgressWithinBounds ==
  LET st == get_processing_status(1) IN
  /\ st.processed_files <= st.total_files
  /\ 0 <= st.overall_progress
  /\ st.overall_progress <= 100 * 100

\* C37 as stated: once the worker thread has left its loop, after a stop as
\* after an empty queue, the status reports is_processing = false, so that a
\* caller waiting for is_processing to become false stops waiting.
C37_ExitedWorkerReportsIdle ==
  worker[1].pc = "dead" => ~get_processing_status(1).is_processing

(***************************************************************************)
(* Operator commands: cli-manager.py reset_files.                          *)
(***************************************************************************)
ResetFileRow(f) ==
  [f EXCEPT !.processing_status = PENDING,
            !.scene_detection_complete = FALSE,
            !.features_extraction_complete = FALSE,
            !.scene_detection_progress = 0,
            !.feature_extraction_progress = 0,
            !.last_error = NoError,
            !.error_count = 0]

ResetSegmentRow(sg) ==
  [sg EXCEPT !.processing_status = PENDING,
             !.features_extracted = FALSE,
             !.last_error = NoError,
             !.error_count = 0]

RetryRow(r) == [r EXCEPT !.processing_status = PENDING, !.last_error = NoError]

\* reset --file ID, lines 312-337
reset_file(p) ==
  /\ resets < MaxResets
  /\ p \in DOMAIN media_files
  /\ resets' = resets + 1
  /\ media_files' = [media_files EXCEPT ![p] = ResetFileRow(@)]
  /\ segments' = [i \in SegmentIds |->
                    IF segments[i].source_file = p THEN ResetSegmentRow(segments[i])
                    ELSE segments[i]]
  /\ UNCHANGED <<video, features, tags, checkpoints, mgrVars, selVars, scn>>

\* reset --failed, lines 339-353
reset_failed ==
  /\ resets < MaxResets
  /\ resets' = resets + 1
  /\ media_files' = [p \in DOMAIN media_files |->
                       IF media_files[p].processing_status = FAILED
                       THEN RetryRow(media_files[p]) ELSE media_files[p]]
  /\ segments' = [i \in SegmentIds |->
                    IF segments[i].processing_status = FAILED
                    THEN RetryRow(segments[i]) ELSE segments[i]]
  /\ UNCHANGED <<video, features, tags, checkpoints, mgrVars, selVars, scn>>

\* reset --all, lines 355-379
reset_all ==
  /\ resets < MaxResets
  /\ resets' = resets + 1
  /\ media_files' = [p \in DOMAIN media_files |-> ResetFileRow(media_files[p])]
  /\ segments' = [i \in SegmentIds |-> ResetSegmentRow(segments[i])]
  /\ checkpoints' = <<>>
  /\ UNCHANGED <<video, features, tags, mgrVars, selVars, scn>>

ResetOp ==
  \/ \E p \in Paths : reset_file(p)
  \/ reset_failed
  \/ reset_all

(***************************************************************************)
(* SpecOps: the coordinator working on the first file, its thread, and the *)
(* reset commands of an operator working on the same store.                *)
(***************************************************************************)
NextOps ==
  \/ process_file(1, 1)
  \/ stop_processing(1)
  \/ WorkerStep(1)
  \/ ResetOp

SpecOps == Init /\ [][NextOps]_vars

\* C2 as stated: for every file, features_extraction_complete implies
\* scene_detection_complete, and COMPLETED implies both flags, in every state
\* reached by processing, failure, retry and the reset commands.
C2_StageFlagsOrdered ==
  \A p \in DOMAIN media_files :
    /\ media_files[p].features_extraction_complete
         => media_files[p].scene_detection_complete
    /\ StatusOf(p) = COMPLETED
         => /\ media_files[p].scene_detection_complete
            /\ media_files[p].features_extraction_complete

\* C22 as stated: no two SegmentFeature rows share segment, feature_type and
\* feature_name, in every state reached by processing, failure, retry and
\* the reset commands.
C22_OneRowPerFeature ==
  \A a, b \in DOMAIN features :
    (/\ features[a].segment_id = features[b].segment_id
     /\ features[a].feature_type = features[b].feature_type
     /\ features[a].feature_name = features[b].feature_name) => a = b

(***************************************************************************)
(* SpecDamaged: the pipeline of Spec run on files that cannot be read to   *)
(* the end: cap.read() delivers only the first frames of the file and      *)
(* fails from then on.                                                     *)
(***************************************************************************)
ReadableFrames == {0, 1, 3}

DamagedVideo(p, r) == [PipelineVideo(p) EXCEPT !.readable = Min2(r, @)]

InitDamaged ==
  /\ video \in {[p \in Paths |-> DamagedVideo(p, r)] : r \in ReadableFrames}
  /\ EmptyPipeline
  /\ scn = IdleScn

NextDamaged ==
  \/ \E p \in Paths : process_file(1, p)
  \/ resume_failed(1)
  \/ WorkerStep(1)

SpecDamaged == InitDamaged /\ [][NextDamaged]_vars

\* The frame positions the loop of detect_scenes visits on a cold run.
SampledPositions(v) ==
  {f \in 0..(FrameCount(v) - 1) : f % SampleInterval(v.fps) = 0}

\* C29 as stated: a file has segments, or has scene_detection_complete set,
\* only if every sampled frame position up to frame_count could be read, so
\* that the scan did not end early.
C29_NoSegmentsFromPartialScan ==
  \A p \in DOMAIN media_files :
    (\/ media_files[p].scene_detection_complete
     \/ \E i \in SegmentIds : segments[i].source_file = p)
      => \A f \in SampledPositions(video[p]) : CanRead(video[p], f)

(***************************************************************************)
(* SpecRetry: the pipeline with failures of the store in the feature       *)
(* stage.  _run_feature_extraction raises when its query fails (lines      *)
(* 281-284), or when a commit of the loop and the commit of the loop's own *)
(* except branch both fail (lines 301, 328), as SQLite does while another  *)
(* process holds the database lock.  The uncommitted changes of the        *)
(* session are rolled back by the file-level handler (line 196).           *)
(***************************************************************************)
\* len(str(e)) of the database error: short, or longer than the column
\* when the message carries the SQL statement.
DbErrorLens == {45, 600}

\* len("feature_extraction: ")
FeaturePrefixLen == 20

\* _process_file_safe, lines 174-176, and _run_feature_extraction, lines
\* 281-328: the stage is entered (or in its loop) and the store raises.
feature_stage_raises(m) ==
  LET p == worker[m].file IN
  /\ \/ /\ worker[m].pc \in {"stage1", "stage2"}
        /\ media_files[p].scene_detection_complete
        /\ ~media_files[p].features_extraction_complete
     \/ worker[m].pc = "fe_mark" /\ ~stop_requested[m]
  /\ media_files[p].error_count < MaxErrors
  /\ \E len \in DbErrorLens :
       worker' = [worker EXCEPT ![m].exc = len, ![m].segs = <<>>, ![m].k = 0,
                                ![m].pc = "fe_err"]
  /\ UNCHANGED <<video, storeVars, selVars, resets, scn, processing_queue,
                 is_processing, stop_requested, total_files, processed_files>>

\* _handle_processing_error, lines 330-338, called from line 182 for the
\* feature-extraction stage; the exception is raised again (line 184).
handle_feature_error(m) ==
  LET p == worker[m].file IN
  /\ worker[m].pc = "fe_err"
  /\ media_files' = [media_files EXCEPT
                       ![p].last_error = Truncate(FeaturePrefixLen + worker[m].exc),
                       ![p].error_count = @ + 1]
  /\ Goto(m, "file_err")
  /\ UNCHANGED <<video, segments, features, tags, checkpoints, selVars, resets, scn,
                 processing_queue, is_processing, stop_requested, total_files,
                 processed_files>>

NextRetry ==
  \/ \E p \in Paths : process_file(1, p)
  \/ resume_failed(1)
  \/ WorkerStep(1)
  \/ feature_stage_raises(1)
  \/ handle_feature_error(1)

SpecRetry == Init /\ [][NextRetry]_vars

\* The rows of a table (a sequence of records) that belong to file p.
SegmentRowsOf(p) == {i \in SegmentIds : segments[i].source_file = p}
CheckpointRowsOf(p) == {c \in DOMAIN checkpoints : checkpoints[c].media_file = p}

\* C34: once a file has scene_detection_complete, and in particular when a
\* file that FAILED in the feature stage is taken up again, no step runs the
\* scene stage for it: the flag stays true, the file's checkpoint and segment
\* rows are neither created nor deleted, the worker does not enter the scan,
\* and the only segment rows that change, and the only segments that get
\* feature rows, are segments of the file that had features_extracted = false.
C34_RetrySkipsSceneStage ==
  [][\A p \in DOMAIN media_files :
       media_files[p].scene_detection_complete =>
         /\ media_files'[p].scene_detection_complete
         /\ {c \in DOMAIN checkpoints' : checkpoints'[c].media_file = p}
               = CheckpointRowsOf(p)
         /\ \A c \in CheckpointRowsOf(p) : checkpoints'[c] = checkpoints[c]
         /\ {i \in DOMAIN segments' : segments'[i].source_file = p} = SegmentRowsOf(p)
         /\ \A i \in SegmentRowsOf(p) :
              segments'[i] # segments[i] => ~segments[i].features_extracted
         /\ \A r \in DOMAIN features' \ DOMAIN features :
              \A i \in SegmentRowsOf(p) :
                features'[r].segment_id = i => ~segments[i].features_extracted
         /\ (worker[1].file = p /\ worker[1].pc \in {"read", "lease", "stage1", "stage2"})
              => worker'[1].pc \notin {"sd_scan", "sd_done", "seg_check", "seg_insert"}]_vars

\* A retry at work: file 1 failed in the feature stage after its first
\* segment was extracted, was resumed, and the worker is extracting the one
\* segment that was left.
C34_Witness ==
  /\ worker[1].pc = "fe_extract"
  /\ worker[1].file = 1
  /\ 1 \in DOMAIN media_files
  /\ media_files[1].scene_detection_complete
  /\ media_files[1].error_count > 0
  /\ Len(worker[1].segs) = 1
  /\ \E i \in SegmentRowsOf(1) : segments[i].features_extracted

\* C35 as stated: a failed attempt adds exactly 1 to the file's error_count,
\* whichever stage raised: the stage's handler counts the error once, and the
\* file-level handler that ends the same attempt (the error is already
\* recorded in last_error) adds nothing to it.
C35_OneCountPerFailedAttempt ==
  [][\A p \in DOMAIN media_files :
       /\ (worker[1].file = p /\ worker[1].pc \in {"stage_err", "fe_err"}
             /\ worker'[1].pc = "file_err")
            => media_files'[p].error_count = media_files[p].error_count + 1
       /\ (worker[1].file = p /\ worker[1].pc = "file_err" /\ worker'[1].pc = "after"
             /\ media_files[p].last_error # NoError)
            => media_files'[p].error_count = media_files[p].error_count]_vars

(***************************************************************************)
(* The retrieval layer: SegmentSelector.  A call is sent to the store      *)
(* (query_begin), the store takes its time (query_tick), and the call      *)
(* returns what the store holds when it answers (query_return).            *)
(***************************************************************************)
QueryLimits == {1, 3}

\* filter_by(processed=True)
Servable == {i \in SegmentIds : segments[i].processed}

\* get_segment_features: the first row of the segment with that name, or None
FeatureRowsOf(sid, name) ==
  {r \in DOMAIN features : features[r].segment_id = sid /\ features[r].feature_name = name}

HasFeature(sid, name) == FeatureRowsOf(sid, name) # {}

FeatureOf(sid, name) ==
  features[CHOOSE r \in FeatureRowsOf(sid, name) :
             \A q \in FeatureRowsOf(sid, name) : r <= q].feature_value

\* np.dot(ref_features, features)
Similarity(ref, sid) == FeatureOf(ref, "clip_embedding") * FeatureOf(sid, "clip_embedding")

\* C38 as stated: every segment the retrieval layer may serve (COMPLETED
\* with features_extracted and processed set) has a clip_embedding row and a
\* color_histogram row.
C38_ServedSegmentHasFeatures ==
  \A i \in SegmentIds :
    (/\ segments[i].processing_status = COMPLETED
     /\ segments[i].features_extracted
     /\ segments[i].processed)
      => HasFeature(i, "clip_embedding") /\ HasFeature(i, "color_histogram")

\* A candidate pool that keeps the recently selected segments.
CandidatesWithRecent(ref) ==
  {i \in Servable : i # ref /\ HasFeature(i, "clip_embedding")}

\* The candidates both searches score: processed, not the reference, not
\* recently selected, with a feature row.
Candidates(ref) ==
  {i \in Servable : /\ i # ref
                    /\ i \notin Range(last_segments)
                    /\ HasFeature(i, "clip_embedding")}

Returned(i, score) ==
  [id |-> i, status |-> segments[i].processing_status, score |-> score]

\* The first `limit` of S in the order given by rank (0 is first).
TopBy(S, rank, limit) ==
  LET n == Min2(limit, Cardinality(S)) IN
  [k \in 1..n |-> CHOOSE i \in S : rank[i] = k - 1]

\* find_similar_segments, lines 63-113: a stable sort by score, highest first
find_similar_segments(ref, limit) ==
  IF ~HasFeature(ref, "clip_embedding") THEN <<>>
  ELSE LET C == Candidates(ref)
           rank == [i \in C |-> Cardinality({j \in C :
                        \/ Similarity(ref, j) > Similarity(ref, i)
                        \/ Similarity(ref, j) = Similarity(ref, i) /\ j < i})]
           top == TopBy(C, rank, limit)
       IN [k \in DOMAIN top |-> Returned(top[k], Similarity(ref, top[k]))]

\* find_contrasting_segments, lines 115-167: the same with the sign turned
find_contrasting_segments(ref, limit) ==
  IF ~HasFeature(ref, "clip_embedding") THEN <<>>
  ELSE LET C == Candidates(ref)
           rank == [i \in C |-> Cardinality({j \in C :
                        \/ Similarity(ref, j) < Similarity(ref, i)
                        \/ Similarity(ref, j) = Similarity(ref, i) /\ j < i})]
           top == TopBy(C, rank, limit)
       IN [k \in DOMAIN top |-> Returned(top[k], Similarity(ref, top[k]))]

RECURSIVE Distinct(_, _)
Distinct(s, seen) ==
  IF s = <<>> THEN <<>>
  ELSE IF Head(s) \in seen THEN Distinct(Tail(s), seen)
  ELSE <<Head(s)>> \o Distinct(Tail(s), seen \cup {Head(s)})

\* find_segments_by_tag, lines 169-188: the join with tags ordered by
\* confidence and cut at `limit` rows, then the recent ones taken out.
find_segments_by_tag(tag_value, limit) ==
  LET rows == {t \in DOMAIN tags : /\ tags[t].tag_type = "concept"
                                   /\ tags[t].tag_value = tag_value
                                   /\ tags[t].segment_id \in Servable}
      rank == [t \in rows |-> Cardinality({u \in rows :
                    \/ tags[u].confidence > tags[t].confidence
                    \/ tags[u].confidence = tags[t].confidence /\ u < t})]
      top == TopBy(rows, rank, limit)
      ids == Distinct([k \in DOMAIN top |-> tags[top[k]].segment_id], {})
      kept == SelectSeq(ids, LAMBDA i : i \notin Range(last_segments))
  IN [k \in DOMAIN kept |-> Returned(kept[k], 0)]

\* Lines 34-38: remember the selection, keep the last 10
Remembered(ls, i) ==
  LET a == Append(ls, i) IN IF Len(a) > RecentLimit THEN Tail(a) ELSE a

query_begin(kind, arg, limit) ==
  /\ query.pc = "idle"
  /\ query.calls < MaxQueries
  /\ query' = [pc |-> "running", kind |-> kind, arg |-> arg, limit |-> limit,
               wait |-> 0, result |-> <<>>, calls |-> query.calls + 1]
  /\ UNCHANGED <<video, storeVars, mgrVars, last_segments, resets, scn>>

\* The store has not answered yet and the clock advances; the call has no
\* deadline and keeps waiting.
query_tick ==
  /\ query.pc = "running"
  /\ query.wait < MaxQueryTicks
  /\ query' = [query EXCEPT !.wait = @ + 1]
  /\ UNCHANGED <<video, storeVars, mgrVars, last_segments, resets, scn>>

Answer(result) == query' = [query EXCEPT !.pc = "idle", !.result = result]

\* random_segment, lines 18-42
random_segment ==
  /\ query.pc = "running" /\ query.kind = "random"
  /\ IF Servable = {}
     THEN Answer(<<>>) /\ UNCHANGED last_segments
     ELSE \E i \in Servable :
            /\ Answer(<<Returned(i, 0)>>)
            /\ last_segments' = Remembered(last_segments, i)
  /\ UNCHANGED <<video, storeVars, mgrVars, resets, scn>>

query_return ==
  /\ query.pc = "running" /\ query.kind # "random"
  /\ Answer(CASE query.kind = "similar" -> find_similar_segments(query.arg, query.limit)
              [] query.kind = "contrast" -> find_contrasting_segments(query.arg, query.limit)
              [] OTHER -> find_segments_by_tag(query.arg, query.limit))
  /\ UNCHANGED <<video, storeVars, mgrVars, last_segments, resets, scn>>

QueryCall ==
  \/ query_begin("random", 0, 1)
  \/ \E i \in SegmentIds, l \in QueryLimits : query_begin("similar", i, l)
  \/ \E i \in SegmentIds, l \in QueryLimits : query_begin("contrast", i, l)
  \/ \E c \in Concepts, l \in QueryLimits : query_begin("tag", c, l)
  \/ random_segment
  \/ query_return

(***************************************************************************)
(* SpecQuery: retrieval calls made while the pipeline processes the first  *)
(* file and an operator resets it.                                         *)
(***************************************************************************)
NextQuery ==
  \/ process_file(1, 1)
  \/ WorkerStep(1)
  \/ reset_file(1)
  \/ QueryCall

SpecQuery == Init /\ [][NextQuery]_vars

\* C6 as stated: every segment a retrieval call returns is COMPLETED when
\* the store answers the call, also while its file is being reset.
C6_ReturnedAreCompleted ==
  \A k \in DOMAIN query.result : query.result[k].status = COMPLETED

(***************************************************************************)
(* SpecDeadline: retrieval calls against a store that is slow to answer.   *)
(***************************************************************************)
NextDeadline ==
  \/ process_file(1, 1)
  \/ WorkerStep(1)
  \/ QueryCall
  \/ query_tick

SpecDeadline == Init /\ [][NextDeadline]_vars

(***************************************************************************)
(* SpecTwo: two coordinators on the same store, the application (manager   *)
(* 1) and the `process --file` command of cli-manager.py, which builds a   *)
(* ProcessorManager of its own (manager 2) and hands it a file that has a  *)
(* row; both are handed the second file.                                   *)
(***************************************************************************)
\* process_files, lines 248-263: the command's manager is new (its thread has
\* not counted a queue yet) and the file must be found in the store.
cli_process_file(p) ==
  /\ total_files[2] = 0
  /\ p \in DOMAIN media_files
  /\ process_file(2, p)

NextTwo ==
  \/ process_file(1, 2)
  \/ cli_process_file(2)
  \/ WorkerStep(1)
  \/ WorkerStep(2)

SpecTwo == Init /\ [][NextTwo]_vars

\* The worker of manager m is between setting IN_PROGRESS on the file and
\* leaving _process_file_safe.
Holds(m, p) ==
  /\ worker[m].file = p
  /\ worker[m].pc \in {"stage1", "sd_scan", "seg_check", "seg_insert", "sd_done",
                       "stage2", "fe_mark", "fe_extract", "fe_done", "fe_finish",
                       "final", "stage_err", "file_err"}

\* C5 as stated: at no time do two workers hold the same file IN_PROGRESS.
C5_ExclusiveLease ==
  \A p \in DOMAIN media_files :
    ~(StatusOf(p) = IN_PROGRESS /\ Holds(1, p) /\ Holds(2, p))

\* C4 as stated: no two segment rows share (owning file, start_frame,
\* end_frame).
C4_SegmentKeyUnique ==
  \A i, j \in SegmentIds :
    ( /\ segments[i].source_file = segments[j].source_file
      /\ segments[i].start_frame = segments[j].start_frame
      /\ segments[i].end_frame = segments[j].end_frame )
    => i = j

(***************************************************************************)
(* SpecClean: the two managers of SpecTwo and the operator command         *)
(* `cli-manager.py cleanup --checkpoints` run against the same store.      *)
(***************************************************************************)
\* cleanup_database, lines 455-458: ORDER BY created_at DESC LIMIT 1 of the
\* file's scene_detection checkpoints; rows are created in list order.
LastCreated(p) ==
  {c \in DOMAIN checkpoints :
      /\ checkpoints[c].media_file = p
      /\ \A d \in DOMAIN checkpoints : checkpoints[d].media_file = p => d <= c}

RECURSIVE KeptRows(_, _, _)
KeptRows(rows, keep, k) ==
  IF k > Len(rows) THEN <<>>
  ELSE (IF k \in keep THEN <<rows[k]>> ELSE <<>>) \o KeptRows(rows, keep, k + 1)

\* cleanup_database, lines 448-470: for every file every scene_detection
\* checkpoint but the most recently created one is deleted.
cleanup_database ==
  /\ checkpoints' =
       KeptRows(checkpoints, UNION {LastCreated(p) : p \in DOMAIN media_files}, 1)
  /\ UNCHANGED <<video, media_files, segments, features, tags, mgrVars, selVars,
                 resets, scn>>

NextClean ==
  \/ NextTwo
  \/ cleanup_database

SpecClean == Init /\ [][NextClean]_vars

\* The frame _run_scene_detection resumes from when the store holds the
\* checkpoints cps: the highest frame_number among the file's rows.
ResumePoints(cps, p) ==
  {cps[c].frame_number :
     c \in {c \in DOMAIN cps :
              /\ cps[c].media_file = p
              /\ \A d \in DOMAIN cps :
                   cps[d].media_file = p => cps[d].frame_number <= cps[c].frame_number}}

\* C23 as stated: a cleanup leaves every file at most one scene_detection
\* checkpoint, and the frame a resume would start from is the same after the
\* cleanup as before it.
C23_CleanupKeepsResumePoint ==
  [][cleanup_database =>
       \A p \in DOMAIN media_files :
         /\ Cardinality({c \in DOMAIN checkpoints' : checkpoints'[c].media_file = p}) <= 1
         /\ ResumePoints(checkpoints', p) = ResumePoints(checkpoints, p)]_vars

(***************************************************************************)
(* SpecScenes: scene detection on its own.  A video is drawn, detect_scenes *)
(* runs cold over it with the progress callback of _run_scene_detection    *)
(* writing checkpoints, and then runs again from one of the checkpoints    *)
(* written, the way _run_scene_detection resumes.                          *)
(***************************************************************************)
ShotLens == {1, 8, 17, 25}
Looks == {1, 3, 4}
FrameRates == {1, 12}

StudyShots == UNION {[1..n -> [len : ShotLens, look : Looks]] : n \in 1..MaxShots}

\* Whole files, and files whose last three frames cannot be read.
StudyVideos ==
  {[fps |-> f, shots |-> sh, readable |-> SumLens(sh) - cut] :
     f \in FrameRates, sh \in StudyShots, cut \in {0, 3}}

InitScenes ==
  /\ PipelineInit
  /\ scn \in {[phase |-> "input", v |-> v, cold |-> {}, callbacks |-> <<>>,
               written |-> <<>>, from |-> 0, resumed |-> {}, returned |-> <<>>] :
                 v \in StudyVideos}

\* The rows _update_scene_progress writes for the callbacks of one run.
RECURSIVE WrittenCheckpoints(_, _)
WrittenCheckpoints(callbacks, total_frames) ==
  IF callbacks = <<>> THEN <<>>
  ELSE (IF CheckpointDue(Head(callbacks).frame, total_frames, Head(callbacks).scenes)
        THEN <<CheckpointRow(0, Head(callbacks).frame, Head(callbacks).scenes)>>
        ELSE <<>>) \o WrittenCheckpoints(Tail(callbacks), total_frames)

\* The (start_frame, end_frame) pairs create_segments_from_scenes makes of
\* the scenes of a run.
SegmentsOf(v, scenes) == SegmentKeys(SegmentPlan(scenes, v.fps))

\* _run_scene_detection without a checkpoint
scene_cold_run ==
  /\ scn.phase = "input"
  /\ \E r \in {detect_scenes(scn.v, 0, <<>>, SegmenterStopRequested)} :
       scn' = [scn EXCEPT !.phase = "cold",
                          !.cold = SegmentsOf(scn.v, r.scenes),
                          !.callbacks = r.callbacks,
                          !.returned = r.scenes,
                          !.written = WrittenCheckpoints(r.callbacks, FrameCount(scn.v))]
  /\ UNCHANGED <<video, storeVars, mgrVars, selVars, resets>>

\* _run_scene_detection with checkpoint k of the cold run as the latest one
scene_resume(k) ==
  /\ scn.phase = "cold"
  /\ k \in DOMAIN scn.written
  /\ \E r \in {detect_scenes(scn.v, scn.written[k].frame_number,
                             UnpickleScenes(scn.written[k].checkpoint_data),
                             SegmenterStopRequested)} :
       scn' = [scn EXCEPT !.phase = "resumed",
                          !.from = k,
                          !.resumed = SegmentsOf(scn.v, r.scenes),
                          !.returned = r.scenes]
  /\ UNCHANGED <<video, storeVars, mgrVars, selVars, resets>>

NextScenes ==
  \/ scene_cold_run
  \/ \E k \in 1..(MaxShots * 2) : scene_resume(k)

SpecScenes == InitScenes /\ [][NextScenes]_vars

\* C3 as stated: the run resumed from any checkpoint of the cold run ends
\* with exactly the (start_frame, end_frame) segments of the cold run.
C3_ResumeGivesColdSegments ==
  scn.phase = "resumed" => scn.resumed = scn.cold

\* C24 as stated: the callbacks of a run each appended one checkpoint row,
\* the k-th row carrying the frame and the scene list of the k-th callback.
C24_CheckpointPerCallback ==
  scn.phase = "cold"
    => /\ Len(scn.written) = Len(scn.callbacks)
       /\ \A k \in DOMAIN scn.written :
            /\ scn.written[k].frame_number = scn.callbacks[k].frame
            /\ UnpickleScenes(scn.written[k].checkpoint_data) = scn.callbacks[k].scenes

\* C27: a cold run over a file with frame_count > 0 returns one scene more
\* than it detected boundaries: the first starts at 0, the last ends at
\* frame_count, each scene is non-empty and ends where the next starts, at a
\* detected boundary whose strength is the scene's score, and the last scene
\* has score 0; with no boundary the list is the single scene
\* (0, frame_count, 0).
C27_ColdScenesPartitionFile ==
  (scn.phase = "cold" /\ FrameCount(scn.v) > 0)
    => LET sc == scn.returned
           changes == ScanAll(scn.v, ScanInit(scn.v, 0), SegmenterStopRequested, <<>>).st.changes
       IN /\ Len(sc) = Len(changes) + 1
          /\ sc[1][1] = 0
          /\ sc[Len(sc)][2] = FrameCount(scn.v)
          /\ sc[Len(sc)][3] = 0
          /\ \A k \in DOMAIN sc : sc[k][1] < sc[k][2]
          /\ \A k \in DOMAIN changes :
               /\ sc[k][2] = sc[k + 1][1]
               /\ sc[k][2] = changes[k][1]
               /\ sc[k][3] = changes[k][2]
          /\ changes = <<>> => sc = << <<0, FrameCount(scn.v), 0>> >>

\* A cold run that found two boundaries of different strength.
C27_Witness ==
  /\ scn.phase = "cold"
  /\ Len(scn.returned) = 3
  /\ scn.returned[1][3] # scn.returned[2][3]
  /\ scn.returned[2][3] > 0

\* Scenes are half-open frame ranges [start, end).
NoOverlap(scenes) ==
  \A j, k \in DOMAIN scenes :
    j < k => (scenes[j][2] <= scenes[k][1] \/ scenes[k][2] <= scenes[j][1])

\* C25 as stated: a run resumed with a non-empty scene list S that detects a
\* boundary returns S with its last scene ended at the first boundary when
\* that boundary lies before the last scene's end, and S unchanged otherwise,
\* followed in both cases by the scenes between the boundaries and the one up
\* to frame_count; and the returned scenes never overlap.
C25_ResumeMergesWithoutOverlap ==
  scn.phase = "resumed"
    => LET ck == scn.written[scn.from]
           S == UnpickleScenes(ck.checkpoint_data)
           changes == ScanAll(scn.v, ScanInit(scn.v, ck.frame_number),
                              SegmenterStopRequested, <<>>).st.changes
           follow == MidScenes(changes) \o << <<Last(changes)[1], FrameCount(scn.v), 0>> >>
       IN /\ (S # <<>> /\ changes # <<>>)
               => scn.returned =
                    (IF changes[1][1] < Last(S)[2]
                     THEN [S EXCEPT ![Len(S)] = <<@[1], changes[1][1], @[3]>>]
                     ELSE S) \o follow
          /\ NoOverlap(scn.returned)

(***************************************************************************)
(* SpecPlan: detect_scenes followed by create_segments_from_scenes on long *)
(* footage, cold and fully readable: shots of 30 to 3000 frames with       *)
(* alternating looks, at 30 and 60 frames per second.                      *)
(***************************************************************************)
MaxPlanShots == 4
PlanShotLens == {30, 450, 460, 1500, 3000}
PlanFrameRates == {30, 60}

PlanVideo(f, lens) ==
  [fps |-> f,
   shots |-> [k \in DOMAIN lens |-> [len |-> lens[k], look |-> IF k % 2 = 1 THEN 1 ELSE 3]],
   readable |-> SumOver(DOMAIN lens, [k \in DOMAIN lens |-> lens[k]])]

PlanVideos ==
  {PlanVideo(f, lens) :
     f \in PlanFrameRates, lens \in UNION {[1..n -> PlanShotLens] : n \in 1..MaxPlanShots}}

InitPlan ==
  /\ PipelineInit
  /\ scn \in {[phase |-> "footage", v |-> v, scenes |-> <<>>, plan |-> <<>>] : v \in PlanVideos}

\* detect_scenes(file_path) with no checkpoint
plan_detect_scenes ==
  /\ scn.phase = "footage"
  /\ \E r \in {detect_scenes(scn.v, 0, <<>>, SegmenterStopRequested)} :
       scn' = [scn EXCEPT !.phase = "detected", !.scenes = r.scenes]
  /\ UNCHANGED <<video, storeVars, mgrVars, selVars, resets>>

\* create_segments_from_scenes(media_file, scenes) on an empty segment table
plan_create_segments ==
  /\ scn.phase = "detected"
  /\ \E pl \in {SegmentPlan(scn.scenes, scn.v.fps)} :
       scn' = [scn EXCEPT !.phase = "planned", !.plan = pl]
  /\ UNCHANGED <<video, storeVars, mgrVars, selVars, resets>>

NextPlan == plan_detect_scenes \/ plan_create_segments

SpecPlan == InitPlan /\ [][NextPlan]_vars

\* 9000 frames at 30 fps with changes at frames 1500, 4500 and 7500.
ExampleVideo == PlanVideo(30, <<1500, 3000, 3000, 1500>>)

SceneBounds(scenes) == [k \in DOMAIN scenes |-> <<scenes[k][1], scenes[k][2]>>]

\* The number of planned segments that lie inside scene k.
SegmentsInScene(plan, scenes, k) ==
  Cardinality({j \in DOMAIN plan :
                 plan[j][1] >= scenes[k][1] /\ plan[j][2] <= scenes[k][2]})

\* C15, amended: on the example footage the raw scenes are [0,1500),
\* [1500,4500), [4500,7500), [7500,9000), and every scene longer than 450
\* frames is split, so 4 + 7 + 7 + 4 = 22 segments are created.
C15_ExampleGivesTwentyTwo ==
  (scn.phase = "planned" /\ scn.v = ExampleVideo)
    => /\ SceneBounds(scn.scenes)
            = << <<0, 1500>>, <<1500, 4500>>, <<4500, 7500>>, <<7500, 9000>> >>
       /\ Len(scn.plan) = 22
       /\ [k \in DOMAIN scn.scenes |-> SegmentsInScene(scn.plan, scn.scenes, k)]
            = <<4, 7, 7, 4>>

C15_Witness ==
  /\ scn.phase = "planned"
  /\ scn.v = ExampleVideo
  /\ \E j \in DOMAIN scn.plan : scn.plan[j][1] = 1500 + 6 * 450 /\ scn.plan[j][2] = 4500

\* C15 as stated: on the example footage exactly 10 segments are created,
\* 1 + 7 + 1 + 1.
C15_ExampleGivesTen ==
  (scn.phase = "planned" /\ scn.v = ExampleVideo)
    => /\ Len(scn.plan) = 10
       /\ [k \in DOMAIN scn.scenes |-> SegmentsInScene(scn.plan, scn.scenes, k)]
            = <<1, 7, 1, 1>>

\* C28: from a list of scenes create_segments_from_scenes creates nothing
\* for a scene shorter than min_frames, the scene itself for a scene of
\* min_frames to max_frames, and for a longer scene a chain of segments that
\* starts at the scene's start, ends at its end, and in which every segment
\* starts where the one before ended; every segment lies in one scene, is
\* created once, carries the scene's score and is at most max_frames long.
C28_SegmentsCoverScenes ==
  scn.phase = "planned"
    => LET min_frames == CLIP_MIN_DURATION * scn.v.fps
           max_frames == CLIP_MAX_DURATION * scn.v.fps
           plan == scn.plan
           inside(sc) == {j \in DOMAIN plan : sc[1] <= plan[j][1] /\ plan[j][2] <= sc[2]}
       IN /\ \A k \in DOMAIN scn.scenes :
               LET sc == scn.scenes[k]
                   len == sc[2] - sc[1]
                   js == inside(sc)
               IN /\ len < min_frames => js = {}
                  /\ (min_frames <= len /\ len <= max_frames)
                       => (Cardinality(js) = 1 /\ \A j \in js : plan[j] = sc)
                  /\ len > max_frames
                       => /\ Cardinality(js) > 1
                          /\ \E j \in js : plan[j][1] = sc[1]
                          /\ \E j \in js : plan[j][2] = sc[2]
                          /\ \A j \in js :
                               /\ plan[j][3] = sc[3]
                               /\ plan[j][2] < sc[2]
                                    => (j + 1 \in js /\ plan[j + 1][1] = plan[j][2])
          /\ \A j \in DOMAIN plan :
               /\ plan[j][1] < plan[j][2]
               /\ plan[j][2] - plan[j][1] <= max_frames
               /\ Cardinality({k \in DOMAIN scn.scenes : j \in inside(scn.scenes[k])}) = 1
               /\ \A i \in DOMAIN plan :
                    i < j => (plan[i][2] <= plan[j][1] \/ plan[j][2] <= plan[i][1])

\* Footage at 30 frames per second with a scene of exactly one second, a
\* scene of exactly fifteen seconds and a longer scene, and footage at 60
\* frames per second with a scene too short to keep.
C28_Witness ==
  /\ scn.phase = "planned"
  /\ \/ /\ scn.v.fps = 30
        /\ \E a, b, c \in DOMAIN scn.scenes :
              /\ scn.scenes[a][2] - scn.scenes[a][1] = 30
              /\ scn.scenes[b][2] - scn.scenes[b][1] = 450
              /\ scn.scenes[c][2] - scn.scenes[c][1] = 1500
        /\ Len(scn.plan) = 6
     \/ /\ scn.v.fps = 60
        /\ \E a, c \in DOMAIN scn.scenes :
              /\ scn.scenes[a][2] - scn.scenes[a][1] = 30
              /\ scn.scenes[c][2] - scn.scenes[c][1] = 3000
        /\ Len(scn.plan) = 4

\* C39 as stated: every segment create_segments_from_scenes creates has
\* start_frame < end_frame and is at least min_frames long, the last piece of
\* a split scene included.
C39_SegmentsAtLeastMinimum ==
  scn.phase = "planned"
    => \A j \in DOMAIN scn.plan :
         /\ scn.plan[j][1] < scn.plan[j][2]
         /\ scn.plan[j][2] - scn.plan[j][1] >= CLIP_MIN_DURATION * scn.v.fps

(***************************************************************************)
(* SpecTags: the tags extract_segment_features derives from one averaged   *)
(* concept-score map.  Scores are in hundredths of a point, confidences in *)
(* ten-thousandths, so confidence = score / 100 keeps the number.          *)
(***************************************************************************)
ScoreLevels == {3000, 4000, 5000, 5001, 8500, 9200}

InitTags ==
  /\ PipelineInit
  /\ scn \in {[phase |-> "scored", scores |-> sc, tags |-> <<>>] :
                sc \in [Concepts -> ScoreLevels]}

\* extract_segment_features, lines 317-340, for segment 1
derive_tags ==
  /\ scn.phase = "scored"
  /\ \E ts \in {ConceptTags(1, scn.scores, 1) \o DominantTags(1, scn.scores)} :
       scn' = [scn EXCEPT !.phase = "tagged", !.tags = ts]
  /\ UNCHANGED <<video, storeVars, mgrVars, selVars, resets>>

NextTags == derive_tags

SpecTags == InitTags /\ [][NextTags]_vars

TagsOfType(ts, type) == {k \in DOMAIN ts : ts[k].tag_type = type}

\* C16: the `concept` tags are one tag per concept scoring above 50, with
\* confidence score/100, and no other; the `dominant_concept` tags are one
\* tag for each of three concepts (all concepts if fewer than three) that no
\* untagged concept outscores, with confidence score/100, above 50 or not.
C16_TagsFollowScores ==
  scn.phase = "tagged" =>
    LET ct == TagsOfType(scn.tags, "concept")
        dt == TagsOfType(scn.tags, "dominant_concept")
        dominant == {scn.tags[k].tag_value : k \in dt}
    IN /\ {scn.tags[k].tag_value : k \in ct} = {c \in Concepts : scn.scores[c] > 50 * 100}
       /\ Cardinality(ct) = Cardinality({c \in Concepts : scn.scores[c] > 50 * 100})
       /\ Cardinality(dt) = Min2(3, Cardinality(Concepts))
       /\ Cardinality(dominant) = Cardinality(dt)
       /\ \A d \in dominant : \A c \in Concepts \ dominant : scn.scores[d] >= scn.scores[c]
       /\ \A k \in ct \cup dt : scn.tags[k].confidence = scn.scores[scn.tags[k].tag_value]

\* The example scores: daytime 85, water 92, indoor 40, urban 30; indoor is a
\* dominant concept without a concept tag.
C16_Witness ==
  /\ scn.phase = "tagged"
  /\ scn.scores = [c \in Concepts |->
                     CASE c = "daytime" -> 8500 [] c = "water" -> 9200
                       [] c = "indoor" -> 4000 [] OTHER -> 3000]
  /\ {scn.tags[k].tag_value : k \in TagsOfType(scn.tags, "concept")} = {"daytime", "water"}
  /\ \E k \in TagsOfType(scn.tags, "dominant_concept") :
       scn.tags[k].tag_value = "indoor" /\ scn.tags[k].confidence = 4000

(***************************************************************************)
(* SpecSelect: the selector over a store the pipeline has filled.  The     *)
(* store holds the first n files, each processed once from start to end by *)
(* one worker, without stop or retry; the footage is drawn.                *)
(***************************************************************************)
MaxSelections == 2
MaxAsked == 6

FootageKinds == {"dusk", "cut", "dark"}

\* "dusk": a change of look too small to be a scene change.  "cut": two
\* shots.  "dark": a file whose frames cannot be read.
Footage(kind) ==
  CASE kind = "dusk" -> [fps |-> 1,
                         shots |-> <<[len |-> 2, look |-> 1], [len |-> 2, look |-> 2]>>,
                         readable |-> 4]
    [] kind = "cut" -> PipelineVideo(1)
    [] OTHER -> [fps |-> 1, shots |-> <<[len |-> 3, look |-> 3]>>, readable |-> 0]

\* The file row after _process_file_safe ran through both stages.
ProcessedFile ==
  [NewMediaFile EXCEPT !.processing_status = COMPLETED,
                       !.scene_detection_complete = TRUE,
                       !.features_extraction_complete = TRUE,
                       !.processed = TRUE,
                       !.scene_detection_progress = 100,
                       !.feature_extraction_progress = 100]

\* The segment row after _run_feature_extraction: marked done whether or not
\* extract_segment_features recorded a failure.
ProcessedSegment(p, t, ft) ==
  [NewSegment(p, t) EXCEPT !.processing_status = COMPLETED,
                           !.features_extracted = TRUE,
                           !.processed = TRUE,
                           !.last_error = IF ft.ok THEN NoError ELSE Truncate(ExtractErrorLen),
                           !.error_count = IF ft.ok THEN 0 ELSE 1]

\* The rows the feature stage adds for the segments plan[k..] of file p.
RECURSIVE SegmentsStored(_, _, _, _, _)
SegmentsStored(st, p, v, plan, k) ==
  IF k > Len(plan) THEN st
  ELSE LET sid == Len(st.segments) + 1
           ft == SegmentFeatures(v, plan[k][1], plan[k][2])
       IN SegmentsStored(
            [st EXCEPT
               !.segments = Append(@, ProcessedSegment(p, plan[k], ft)),
               !.features = IF ft.ok THEN @ \o FeatureRows(sid, ft) ELSE @,
               !.tags = IF ft.ok
                        THEN @ \o ConceptTags(sid, ft.concept_scores, 1)
                               \o DominantTags(sid, ft.concept_scores)
                        ELSE @],
            p, v, plan, k + 1)

\* The store after the files vids[p..] were processed in order.
RECURSIVE FilledStore(_, _, _)
FilledStore(st, vids, p) ==
  IF p > Len(vids) THEN st
  ELSE LET r == detect_scenes(vids[p], 0, <<>>, SegmenterStopRequested)
           written == WrittenCheckpoints(r.callbacks, FrameCount(vids[p]))
           filed == [st EXCEPT
                       !.media_files = Append(@, ProcessedFile),
                       !.checkpoints = @ \o [k \in DOMAIN written |->
                                               [written[k] EXCEPT !.media_file = p]]]
       IN FilledStore(
            SegmentsStored(filed, p, vids[p], SegmentPlan(r.scenes, vids[p].fps), 1),
            vids, p + 1)

EmptyStore ==
  [media_files |-> <<>>, segments |-> <<>>, features |-> <<>>, tags |-> <<>>,
   checkpoints |-> <<>>]

SequenceLengths == {1, 2, 5}
\* The length to which the model follows the window of recent ids; the code
\* sets no such bound.
MaxWindow == 14
SequenceModes == {"similar", "contrast", "concept_chain", "random"}
\* create_diverse_sequence, line 377
DiverseModes == <<"similar", "contrast", "concept_chain">>

\* The selector at rest: no call in flight.
IdleSelector ==
  [pc |-> "idle", op |-> "none", mode |-> "none", length |-> 0, seed |-> 0, goal |-> 0,
   sequence |-> <<>>, current |-> 0, broke |-> FALSE,
   outer |-> <<>>, mode_index |-> 0, ended |-> FALSE,
   tag |-> "none", result |-> <<>>, scores |-> <<>>, calls |-> 0, asked |-> 0]

InitSelect ==
  /\ \E n \in 0..MaxFiles :
       \E kinds \in [1..n -> FootageKinds] :
         /\ video = [p \in Paths |-> IF p <= n THEN Footage(kinds[p]) ELSE PipelineVideo(p)]
         /\ \E st \in {FilledStore(EmptyStore, [p \in 1..n |-> Footage(kinds[p])], 1)} :
              /\ media_files = st.media_files
              /\ segments = st.segments
              /\ features = st.features
              /\ tags = st.tags
              /\ checkpoints = st.checkpoints
         /\ total_files = [m \in Managers |-> IF m = 1 THEN n ELSE 0]
         /\ processed_files = [m \in Managers |-> IF m = 1 THEN n ELSE 0]
         /\ worker = [m \in Managers |-> IF m = 1 THEN [IdleWorker EXCEPT !.file = n]
                                         ELSE IdleWorker]
  /\ processing_queue = [m \in Managers |-> <<>>]
  /\ is_processing = [m \in Managers |-> FALSE]
  /\ stop_requested = [m \in Managers |-> FALSE]
  /\ last_segments = <<>>
  /\ query = IdleSelector
  /\ resets = 0
  /\ scn = IdleScn

\* A new call on the selector, for n segments.
Called(op, n) ==
  [IdleSelector EXCEPT !.op = op, !.calls = query.calls + 1, !.asked = query.asked + n]

CanCall(n) ==
  /\ query.pc = "idle"
  /\ query.calls < MaxSelections
  /\ query.asked + n <= MaxAsked

\* random_segment, lines 18-42, called from outside
select_random ==
  /\ CanCall(1)
  /\ IF Servable = {}
     THEN /\ query' = Called("random_segment", 1)
          /\ UNCHANGED last_segments
     ELSE \E i \in Servable :
            /\ query' = [Called("random_segment", 1) EXCEPT !.result = <<i>>]
            /\ last_segments' = Remembered(last_segments, i)
  /\ UNCHANGED <<video, storeVars, mgrVars, resets, scn>>

\* find_segments_by_tag, lines 169-188, called from outside
select_by_tag(tag_value, limit) ==
  /\ CanCall(1)
  /\ \E found \in {find_segments_by_tag(tag_value, limit)} :
       query' = [Called("find_segments_by_tag", 1) EXCEPT
                   !.tag = tag_value, !.length = limit,
                   !.result = [k \in DOMAIN found |-> found[k].id]]
  /\ UNCHANGED <<video, storeVars, mgrVars, last_segments, resets, scn>>

\* find_similar_segments (lines 63-113) and find_contrasting_segments (lines
\* 115-167), called from outside with the default feature
select_similar(op, ref, limit) ==
  /\ CanCall(1)
  /\ \E found \in {IF op = "find_similar_segments"
                   THEN find_similar_segments(ref, limit)
                   ELSE find_contrasting_segments(ref, limit)} :
       query' = [Called(op, 1) EXCEPT
                   !.seed = ref, !.length = limit,
                   !.result = [k \in DOMAIN found |-> found[k].id],
                   !.scores = [k \in DOMAIN found |-> found[k].score]]
  /\ UNCHANGED <<video, storeVars, mgrVars, last_segments, resets, scn>>

\* create_sequence, lines 209-218: the window is cleared when no seed is
\* given, the first segment is the seed or a random one, and its id is
\* appended to the window.
create_sequence_begin(mode, length, seed) ==
  /\ CanCall(length)
  /\ IF seed = 0 /\ Servable = {}
     THEN /\ query' = [Called("create_sequence", length) EXCEPT
                         !.mode = mode, !.length = length, !.seed = seed]
          /\ last_segments' = <<>>
     ELSE \E cur \in (IF seed = 0 THEN Servable ELSE {seed}) :
            /\ query' = [Called("create_sequence", length) EXCEPT
                           !.pc = "seq", !.mode = mode, !.length = length, !.seed = seed,
                           !.goal = length, !.sequence = <<cur>>, !.current = cur]
            /\ last_segments' =
                 Append(IF seed = 0 THEN Remembered(<<>>, cur) ELSE last_segments, cur)
  /\ UNCHANGED <<video, storeVars, mgrVars, resets, scn>>

\* Lines 340-342, at the end of a loop iteration
Trimmed(ls) == IF Len(ls) > RecentLimit THEN Tail(ls) ELSE ls

\* The loop appends `next` to the sequence and leaves the window as ls.
Chosen(next, ls) ==
  /\ query' = [query EXCEPT !.sequence = Append(@, next), !.current = next]
  /\ last_segments' = ls

\* A fallback that gives up instead of picking a random segment.
FallbackGivesUp ==
  /\ query' = [query EXCEPT !.broke = TRUE]
  /\ UNCHANGED last_segments

\* Lines 236-243: no candidate, so random_segment() is asked; `break` when it
\* has none.
FallbackRandom ==
  IF Servable = {}
  THEN /\ query' = [query EXCEPT !.broke = TRUE]
       /\ UNCHANGED last_segments
  ELSE \E i \in Servable : Chosen(i, Trimmed(Remembered(last_segments, i)))

\* A choice that may take a random usable segment although candidates were
\* found.
PickAmongOrRandom(found) ==
  \/ \E k \in DOMAIN found :
       Chosen(found[k].id, Trimmed(Append(last_segments, found[k].id)))
  \/ FallbackRandom

\* Lines 221-243 (and 245-267, 299-318): one of the candidates found, or the
\* fallback.
PickAmong(found) ==
  IF found # <<>>
  THEN \E k \in DOMAIN found :
         Chosen(found[k].id, Trimmed(Append(last_segments, found[k].id)))
  ELSE FallbackRandom

\* Lines 274-278: the values of the segment's three most confident concept tags
TopConcepts(sid) ==
  LET rows == {t \in DOMAIN tags : tags[t].segment_id = sid /\ tags[t].tag_type = "concept"}
      rank == [t \in rows |-> Cardinality({u \in rows :
                    \/ tags[u].confidence > tags[t].confidence
                    \/ tags[u].confidence = tags[t].confidence /\ u < t})]
      top == TopBy(rows, rank, 3)
  IN {tags[top[k]].tag_value : k \in DOMAIN top}

\* One iteration of the loop of create_sequence, lines 220-342.  In
\* concept_chain mode a segment found by concept is appended and the loop
\* continues at once, past the trimming of the window.
create_sequence_step ==
  /\ query.pc = "seq"
  /\ Len(query.sequence) < query.goal
  /\ ~query.broke
  /\ CASE query.mode = "similar" ->
            PickAmong(find_similar_segments(query.current, 3))
       [] query.mode = "contrast" ->
            PickAmong(find_contrasting_segments(query.current, 3))
       [] query.mode = "concept_chain" ->
            IF TopConcepts(query.current) = {}
            THEN PickAmong(find_similar_segments(query.current, 3))
            ELSE \E c \in TopConcepts(query.current) :
                   \E found \in {find_segments_by_tag(c, 3)} :
                     IF found # <<>>
                     THEN \E k \in DOMAIN found :
                            Chosen(found[k].id, Append(last_segments, found[k].id))
                     ELSE PickAmong(find_similar_segments(query.current, 3))
       [] OTHER ->
            IF Servable = {}
            THEN /\ query' = [query EXCEPT !.broke = TRUE]
                 /\ UNCHANGED last_segments
            ELSE \E i \in Servable :
                   Chosen(i, Trimmed(Append(Remembered(last_segments, i), i)))
  /\ UNCHANGED <<video, storeVars, mgrVars, resets, scn>>

\* create_diverse_sequence, lines 390-407: what the loop does with the
\* sub-sequence create_sequence returned.
Extended(outer, sub) == IF Len(sub) > 1 THEN outer \o Tail(sub) ELSE outer

\* create_sequence returns (line 344), to the outside or into the loop of
\* create_diverse_sequence.
create_sequence_return ==
  /\ query.pc = "seq"
  /\ Len(query.sequence) >= query.goal \/ query.broke
  /\ IF query.op = "create_sequence"
     THEN /\ query' = [Called(query.op, 0) EXCEPT
                         !.calls = query.calls, !.mode = query.mode,
                         !.length = query.length, !.seed = query.seed,
                         !.result = query.sequence]
          /\ UNCHANGED last_segments
     ELSE \E ext \in {Extended(query.outer, query.sequence)} :
            \E back \in {[query EXCEPT !.pc = "div",
                                       !.outer = ext,
                                       !.current = Last(ext),
                                       !.mode_index = (@ + 1) % Len(DiverseModes)]} :
              IF Len(ext) # 1
              THEN query' = back /\ UNCHANGED last_segments
              ELSE IF Servable = {}
              THEN query' = [back EXCEPT !.ended = TRUE] /\ UNCHANGED last_segments
              ELSE \E i \in Servable :
                     /\ query' = [back EXCEPT !.outer = Append(@, i), !.current = i]
                     /\ last_segments' = Remembered(last_segments, i)
  /\ UNCHANGED <<video, storeVars, mgrVars, resets, scn>>

\* create_diverse_sequence, lines 365-378
create_diverse_sequence_begin(length) ==
  /\ CanCall(length)
  /\ IF Servable = {}
     THEN /\ query' = [Called("create_diverse_sequence", length) EXCEPT !.length = length]
          /\ UNCHANGED last_segments
     ELSE \E cur \in Servable :
            /\ query' = [Called("create_diverse_sequence", length) EXCEPT
                           !.pc = "div", !.length = length,
                           !.outer = <<cur>>, !.current = cur]
            /\ last_segments' = Remembered(last_segments, cur)
  /\ UNCHANGED <<video, storeVars, mgrVars, resets, scn>>

\* Lines 380-388: create_sequence(mode, length=2, seed_segment=current) is
\* entered; with a seed the window is kept and the seed's id appended.
create_diverse_sequence_call ==
  /\ query.pc = "div"
  /\ Len(query.outer) < query.length
  /\ ~query.ended
  /\ Len(last_segments) < MaxWindow
  /\ query' = [query EXCEPT !.pc = "seq",
                            !.mode = DiverseModes[query.mode_index + 1],
                            !.goal = 2,
                            !.sequence = <<query.current>>,
                            !.broke = FALSE]
  /\ last_segments' = Append(last_segments, query.current)
  /\ UNCHANGED <<video, storeVars, mgrVars, resets, scn>>

\* Line 409: return sequence[:length]
create_diverse_sequence_return ==
  /\ query.pc = "div"
  /\ Len(query.outer) >= query.length \/ query.ended
  /\ query' = [Called(query.op, 0) EXCEPT
                 !.calls = query.calls, !.length = query.length,
                 !.result = SubSeq(query.outer, 1, Min2(query.length, Len(query.outer)))]
  /\ UNCHANGED <<video, storeVars, mgrVars, last_segments, resets, scn>>

\* playback_controller.py, lines 70-74: the seed is a segment of the sequence
\* the selector returned last, or None.
Seeds == {0} \cup Range(query.result)

NextSelect ==
  \/ select_random
  \/ \E c \in Concepts, l \in QueryLimits : select_by_tag(c, l)
  \/ \E op \in {"find_similar_segments", "find_contrasting_segments"},
        ref \in SegmentIds, l \in QueryLimits : select_similar(op, ref, l)
  \/ \E mode \in SequenceModes, l \in SequenceLengths, seed \in Seeds :
       create_sequence_begin(mode, l, seed)
  \/ create_sequence_step
  \/ create_sequence_return
  \/ \E l \in SequenceLengths : create_diverse_sequence_begin(l)
  \/ create_diverse_sequence_call
  \/ create_diverse_sequence_return

SpecSelect == InitSelect /\ [][NextSelect]_vars

\* C18 as stated: whenever the selector is at rest, after any calls of
\* random_segment, create_sequence (with or without a seed) and
\* create_diverse_sequence, the window of recent selections holds at most 10
\* ids.
C18_WindowAtMostTen ==
  query.pc = "idle" => Len(last_segments) <= RecentLimit

\* C19: a sequence call of any mode, create_diverse_sequence included,
\* returns exactly `length` segments when the store has a usable segment, and
\* returns the empty list only when it was given no seed and the store has no
\* usable segment.
C19_SequenceHasLength ==
  (query.pc = "idle" /\ query.op \in {"create_sequence", "create_diverse_sequence"})
    => /\ Servable # {} => Len(query.result) = query.length
       /\ query.result = <<>> => (query.seed = 0 /\ Servable = {})

\* A diverse sequence of five segments, three of them different.
C19_Witness ==
  /\ query.pc = "idle"
  /\ query.op = "create_diverse_sequence"
  /\ Len(query.result) = 5
  /\ Cardinality(Range(query.result)) >= 3

\* The usable segments outside the window that carry the concept tag.
Eligible(tag_value) ==
  {i \in Servable \ Range(last_segments) :
     \E t \in DOMAIN tags : /\ tags[t].segment_id = i
                            /\ tags[t].tag_type = "concept"
                            /\ tags[t].tag_value = tag_value}

ConfidenceOf(i, tag_value) ==
  LET rows == {t \in DOMAIN tags : /\ tags[t].segment_id = i
                                   /\ tags[t].tag_type = "concept"
                                   /\ tags[t].tag_value = tag_value}
  IN tags[CHOOSE t \in rows : \A u \in rows : tags[t].confidence >= tags[u].confidence]
       .confidence

\* C20 as stated: a find-by-tag call for k segments returns the k most
\* confident usable segments with the tag outside the window, most confident
\* first, and fewer than k only when there are fewer than k of them.
C20_TopKOutsideWindow ==
  (query.pc = "idle" /\ query.op = "find_segments_by_tag")
    => LET el == Eligible(query.tag)
           r == query.result
       IN /\ Len(r) = Min2(query.length, Cardinality(el))
          /\ \A k \in DOMAIN r : r[k] \in el
          /\ \A j, k \in DOMAIN r :
               j < k => ConfidenceOf(r[j], query.tag) >= ConfidenceOf(r[k], query.tag)
          /\ \A k \in DOMAIN r : \A i \in el \ Range(r) :
               ConfidenceOf(r[k], query.tag) >= ConfidenceOf(i, query.tag)

\* C21: find_similar_segments returns at most k pairs with scores that never
\* increase, find_contrasting_segments at most k pairs with scores that never
\* decrease; each score is the similarity of the pair's segment to the
\* reference; no returned segment is the reference or in the window; and no
\* candidate left out ranks before a returned one.
C21_SimilarRanked ==
  (query.pc = "idle"
     /\ query.op \in {"find_similar_segments", "find_contrasting_segments"})
    => LET r == query.result
           sc == query.scores
           before(a, b) == IF query.op = "find_similar_segments" THEN a >= b ELSE a <= b
           pool == {i \in Servable : /\ i # query.seed
                                     /\ i \notin Range(last_segments)
                                     /\ HasFeature(i, "clip_embedding")}
       IN /\ Len(r) <= query.length
          /\ \A j, k \in DOMAIN r : j < k => (r[j] # r[k] /\ before(sc[j], sc[k]))
          /\ \A k \in DOMAIN r :
               /\ r[k] # query.seed
               /\ r[k] \notin Range(last_segments)
               /\ r[k] \in pool
               /\ sc[k] = Similarity(query.seed, r[k])
               /\ \A i \in pool \ Range(r) : before(sc[k], Similarity(query.seed, i))
          /\ (HasFeature(query.seed, "clip_embedding") /\ Len(r) < query.length)
               => pool \subseteq Range(r)

\* A contrasting search that returned one of two candidates while a third
\* segment with features sat in the window.
C21_Witness ==
  /\ query.pc = "idle"
  /\ query.op = "find_contrasting_segments"
  /\ Len(query.result) = 1
  /\ Cardinality(Candidates(query.seed)) = 2
  /\ \E i \in Range(last_segments) : i # query.seed /\ HasFeature(i, "clip_embedding")

(***************************************************************************)
(* SpecChurn: create_diverse_sequence on a store from which an operator's  *)
(* `cli-manager.py cleanup --missing` removes the rows of files that are   *)
(* no longer on disk while the call is running.  The selector's steps are  *)
(* scheduled fairly; the cleanup runs at most MaxResets times.             *)
(***************************************************************************)
\* cleanup_database, lines 433-446: the files from k on are missing on disk;
\* their MediaFile rows and their VideoSegment rows are deleted, feature and
\* tag rows are left.  The rows deleted are the last of their tables.
cleanup_missing(k) ==
  /\ resets < MaxResets
  /\ k \in DOMAIN media_files
  /\ \A i, j \in SegmentIds :
       (i < j /\ segments[i].source_file >= k) => segments[j].source_file >= k
  /\ resets' = resets + 1
  /\ media_files' = SubSeq(media_files, 1, k - 1)
  /\ segments' = SelectSeq(segments, LAMBDA sg : sg.source_file < k)
  /\ UNCHANGED <<video, features, tags, checkpoints, mgrVars, selVars, scn>>

SelectorStep ==
  \/ create_sequence_step
  \/ create_sequence_return
  \/ create_diverse_sequence_call
  \/ create_diverse_sequence_return

NextChurn ==
  \/ \E l \in SequenceLengths : create_diverse_sequence_begin(l)
  \/ SelectorStep
  \/ \E k \in Paths : cleanup_missing(k)

SpecChurn == InitSelect /\ [][NextChurn]_vars /\ WF_vars(SelectorStep)

FoundIds(found) == {found[k].id : k \in DOMAIN found}

\* C31: in a loop iteration of create_sequence the segment appended comes
\* from the mode's search whenever that search found something (the top 3 of
\* the similar or the contrasting search; in concept_chain the tag search of
\* one of the current segment's top concepts, and the top 3 of the similar
\* search only when a tag search found nothing or there is no concept); a
\* random usable segment is appended only when the last search of the chain
\* found nothing, and the loop breaks only when no usable segment exists.
C31_FallbackOnlyWhenEmpty ==
  [][(/\ query.pc = "seq" /\ query'.pc = "seq"
      /\ query.mode \in {"similar", "contrast", "concept_chain"}
      /\ query' # query)
       => LET cur == query.current
              similar == FoundIds(find_similar_segments(cur, 3))
              main == IF query.mode = "contrast"
                      THEN FoundIds(find_contrasting_segments(cur, 3))
                      ELSE similar
              byTag(c) == FoundIds(find_segments_by_tag(c, 3))
              viaTag == query.mode = "concept_chain"
                          /\ \E c \in TopConcepts(cur) :
                                byTag(c) # {} /\ Last(query'.sequence) \in byTag(c)
              tagMissed == query.mode = "concept_chain"
                             => (\/ TopConcepts(cur) = {}
                                 \/ \E c \in TopConcepts(cur) : byTag(c) = {})
          IN IF query'.broke
             THEN tagMissed /\ main = {} /\ Servable = {}
                    /\ query'.sequence = query.sequence
             ELSE /\ Len(query'.sequence) = Len(query.sequence) + 1
                  /\ \/ viaTag
                     \/ tagMissed /\ main # {} /\ Last(query'.sequence) \in main
                     \/ tagMissed /\ main = {} /\ Last(query'.sequence) \in Servable]_vars

\* A concept_chain sequence whose second segment is its first again: the
\* current segment has a concept tag, the tag search and the similar search
\* found nothing outside the window, and the random fallback served.
C31_Witness ==
  /\ query.pc = "seq"
  /\ query.mode = "concept_chain"
  /\ Len(query.sequence) >= 2
  /\ query.sequence[2] = query.sequence[1]
  /\ TopConcepts(query.sequence[1]) # {}

(***************************************************************************)
(* SpecSample: the frame positions FeatureExtractor.extract_segment_features *)
(* reads for one segment [start_frame, end_frame), with the interval        *)
(* VideoSegmentProcessor.extract_segment_features passes.                   *)
(***************************************************************************)
MaxSegmentLen == 40
SegmentStarts == {0, 7, 450}

InitSample ==
  /\ PipelineInit
  /\ scn \in {[phase |-> "segment", start_frame |-> s, end_frame |-> s + n, sampled |-> {}] :
                s \in SegmentStarts, n \in 1..MaxSegmentLen}

\* sample_frames = list(range(start_frame, end_frame, interval))
sample_frames ==
  /\ scn.phase = "segment"
  /\ scn' = [scn EXCEPT !.phase = "sampled",
                        !.sampled = SampleFrames(scn.start_frame, scn.end_frame)]
  /\ UNCHANGED <<video, storeVars, mgrVars, selVars, resets>>

NextSample == sample_frames

SpecSample == InitSample /\ [][NextSample]_vars

\* C26 as stated: at most 5 positions are sampled, all inside the segment,
\* the first at start_frame and each next one max(1, length / 5) further.
C26_AtMostFiveSamples ==
  scn.phase = "sampled"
    => /\ Cardinality(scn.sampled) <= 5
       /\ \A f \in scn.sampled : scn.start_frame <= f /\ f < scn.end_frame
       /\ scn.start_frame \in scn.sampled
       /\ \A f \in scn.sampled :
            f + Max2(1, (scn.end_frame - scn.start_frame) \div 5) < scn.end_frame
              => f + Max2(1, (scn.end_frame - scn.start_frame) \div 5) \in scn.sampled

(***************************************************************************)
(* SpecPlayback: PlaybackController on the Qt main thread, with the        *)
(* generator threads it starts and the player that reports finished        *)
(* segments.  The main thread handles one queued event at a time, from its *)
(* event loop or from inside QCoreApplication.processEvents(), which       *)
(* _queue_next_segment calls while it holds sequence_lock.  sequence_lock  *)
(* is a threading.Lock: it is not reentrant, and a thread that acquires it *)
(* while holding it waits for ever.  The callback a generator thread hands *)
(* to QTimer.singleShot is taken to arrive in the main thread's event      *)
(* queue, as the code intends.                                             *)
(***************************************************************************)
MaxGenerations == 2     \* generator threads started
MaxFinished == 2        \* segments the player reports as finished
MaxSkips == 2           \* skip requests of the user

\* The sequences create_sequence / create_diverse_sequence may return over
\* two segments; the empty list when the store has nothing to offer.
GeneratedSequences == {<<>>, <<1>>, <<2>>, <<1, 2>>, <<2, 1>>}

\* playback_controller.py, lines 1-9: no import binds the name Path that
\* line 106 uses.
PathImported == FALSE

NoEvent == [kind |-> "none", sequence |-> <<>>]

\* PlaybackController.__init__ and PlaybackEngine.__init__
IdleController ==
  [ phase |-> "playback",
    keep_running |-> FALSE,
    current_sequence |-> <<>>,
    sequence_position |-> 0,
    sequence_lock |-> "free",
    stack |-> <<>>,
    events |-> <<>>,
    gens |-> [g \in 1..MaxGenerations |-> [pc |-> "unborn", seed |-> 0]],
    current_segment |-> 0,
    next_segment |-> 0,
    needs_next_segment |-> FALSE,
    finished |-> 0,
    skips |-> 0 ]

InitPlayback == PipelineInit /\ scn = IdleController

Unborn(c) == {g \in DOMAIN c.gens : c.gens[g].pc = "unborn"}

\* _generate_sequence, lines 57-66: start a generator thread.
generate_sequence(c) ==
  IF Unborn(c) = {} THEN c
  ELSE LET g == CHOOSE h \in Unborn(c) : \A k \in Unborn(c) : h <= k
       IN [c EXCEPT !.gens[g].pc = "seed"]

\* PlaybackEngine.queue_segment, lines 292-316
queue_segment(c, segment) ==
  IF c.current_segment = 0 THEN [c EXCEPT !.current_segment = segment]
  ELSE [c EXCEPT !.next_segment = segment]

\* PlaybackEngine._play_next_segment, lines 252-260
play_next_segment(c) ==
  IF c.next_segment = 0 THEN c
  ELSE [c EXCEPT !.current_segment = c.next_segment, !.next_segment = 0]

\* Lines 122-130: the sequence is empty or used up.
SequenceExhausted(c) ==
  c.current_sequence = <<>> \/ c.sequence_position >= Len(c.current_sequence)

\* _queue_next_segment, lines 119-142, up to processEvents(): the caller
\* waits for ever when the lock is held (by its own thread: the generator
\* threads hold it only for the length of their read); otherwise it asks for
\* a new sequence and returns, or queues the segment at sequence_position and
\* enters processEvents() with the lock held (frame).
queue_next_segment(c, frame) ==
  IF c.sequence_lock # "free" THEN [c EXCEPT !.stack = Append(@, "blocked")]
  ELSE IF SequenceExhausted(c) THEN generate_sequence(c)
  ELSE [queue_segment(c, c.current_sequence[c.sequence_position + 1]) EXCEPT
          !.sequence_position = @ + 1,
          !.sequence_lock = "main",
          !.stack = Append(@, frame)]

\* _update_sequence, lines 95-111: under the lock, store the sequence, reset
\* the position, print every segment (line 106 raises NameError on the first
\* one when Path is not bound, which leaves the with block), then call
\* _queue_next_segment with the lock still held.
update_sequence(c, sequence) ==
  IF c.sequence_lock # "free" THEN [c EXCEPT !.stack = Append(@, "blocked")]
  ELSE LET d == [c EXCEPT !.current_sequence = sequence, !.sequence_position = 0]
       IN IF PathImported
          THEN queue_next_segment([d EXCEPT !.sequence_lock = "main"], "qns")
          ELSE d

\* _check_playback_status, lines 43-48
check_playback_status(c) ==
  IF c.needs_next_segment
  THEN queue_next_segment([c EXCEPT !.needs_next_segment = FALSE], "qns")
  ELSE c

\* PlaybackEngine._on_segment_finished, lines 231-241, with the controller's
\* slot _on_next_segment_needed (lines 50-54) run by the emit.
on_segment_finished(c) ==
  LET d == queue_next_segment([c EXCEPT !.needs_next_segment = TRUE], "qns_play")
  IN IF d.stack = c.stack THEN play_next_segment(d) ELSE d

\* _skip_to_next_segment, lines 113-117
skip_to_next_segment(c) == queue_next_segment(c, "qns")

Handled(c, ev) ==
  IF ev.kind = "update" THEN update_sequence(c, ev.sequence)
  ELSE IF ev.kind = "timer" THEN check_playback_status(c)
  ELSE IF ev.kind = "skip" THEN skip_to_next_segment(c)
  ELSE on_segment_finished(c)

\* The handler of ev starts a generator thread.
NeedsGenerator(c, ev) ==
  /\ ev.kind \in {"finished", "skip"} \/ (ev.kind = "timer" /\ c.needs_next_segment)
  /\ c.sequence_lock = "free"
  /\ SequenceExhausted(c)

InEventLoop(c) ==
  IF c.stack = <<>> THEN TRUE ELSE c.stack[Len(c.stack)] \in {"qns", "qns_play"}

PlaybackUnchanged == UNCHANGED <<video, storeVars, mgrVars, selVars, resets>>

\* PlaybackController.start, lines 144-160
controller_start ==
  /\ ~scn.keep_running
  /\ scn.stack = <<>>
  /\ scn' = generate_sequence([scn EXCEPT !.keep_running = TRUE])
  /\ PlaybackUnchanged

\* status_timer, lines 37-39: a timeout is queued every 100 ms.
timer_fires ==
  /\ scn.keep_running
  /\ \A k \in DOMAIN scn.events : scn.events[k].kind # "timer"
  /\ scn' = [scn EXCEPT !.events = Append(@, [NoEvent EXCEPT !.kind = "timer"])]
  /\ PlaybackUnchanged

\* skip_segment, lines 189-191, called from the control window.
skip_segment ==
  /\ scn.skips < MaxSkips
  /\ \A k \in DOMAIN scn.events : scn.events[k].kind # "skip"
  /\ scn' = [scn EXCEPT !.events = Append(@, [NoEvent EXCEPT !.kind = "skip"]),
                        !.skips = @ + 1]
  /\ PlaybackUnchanged

\* The player worker reaches the end of the current segment.
segment_finished ==
  /\ scn.current_segment # 0
  /\ scn.finished < MaxFinished
  /\ \A k \in DOMAIN scn.events : scn.events[k].kind # "finished"
  /\ scn' = [scn EXCEPT !.events = Append(@, [NoEvent EXCEPT !.kind = "finished"]),
                        !.finished = @ + 1]
  /\ PlaybackUnchanged

\* _generate_sequence_thread, lines 71-75: the seed is read under the lock.
generator_read_seed(g) ==
  /\ scn.gens[g].pc = "seed"
  /\ scn.sequence_lock = "free"
  /\ scn' = [scn EXCEPT !.gens[g].pc = "select",
                        !.gens[g].seed =
                           IF ~SequenceExhausted(scn)
                           THEN scn.current_sequence[scn.sequence_position + 1]
                           ELSE 0]
  /\ PlaybackUnchanged

\* _generate_sequence_thread, lines 77-93: a non-empty sequence is handed to
\* the main thread with QTimer.singleShot(0, ...).
generator_select(g) ==
  /\ scn.gens[g].pc = "select"
  /\ \E sequence \in GeneratedSequences :
       scn' = [scn EXCEPT
                 !.gens[g].pc = "done",
                 !.events = IF sequence = <<>> THEN @
                            ELSE Append(@, [kind |-> "update", sequence |-> sequence])]
  /\ PlaybackUnchanged

\* The main thread takes the next event, in its event loop or inside
\* processEvents(), and runs the handler up to its end or to the point where
\* it waits.
main_dispatch ==
  /\ scn.events # <<>>
  /\ InEventLoop(scn)
  /\ NeedsGenerator(scn, Head(scn.events)) => Unborn(scn) # {}
  /\ scn' = Handled([scn EXCEPT !.events = Tail(@)], Head(scn.events))
  /\ PlaybackUnchanged

\* _queue_next_segment, line 142 and the end of the with block:
\* processEvents() returns when no event is left; the lock is released and
\* the caller goes on.
process_events_return ==
  /\ scn.stack # <<>>
  /\ scn.stack[Len(scn.stack)] \in {"qns", "qns_play"}
  /\ scn.events = <<>>
  /\ \E d \in {[scn EXCEPT !.stack = SubSeq(@, 1, Len(@) - 1),
                           !.sequence_lock = "free"]} :
       scn' = IF scn.stack[Len(scn.stack)] = "qns_play" THEN play_next_segment(d) ELSE d
  /\ PlaybackUnchanged

NextPlayback ==
  \/ controller_start
  \/ timer_fires
  \/ skip_segment
  \/ segment_finished
  \/ \E g \in 1..MaxGenerations : generator_read_seed(g)
  \/ \E g \in 1..MaxGenerations : generator_select(g)
  \/ main_dispatch
  \/ process_events_return

SpecPlayback == InitPlayback /\ [][NextPlayback]_vars

\* C40 as stated: whenever the main thread takes the update of a generated
\* sequence, the install completes: the sequence is stored, the position has
\* been reset and moved past the first segment, the player holds that first
\* segment, and the main thread is not left waiting for sequence_lock.
C40_InstallCompletes ==
  [][(/\ scn.events # <<>>
      /\ Head(scn.events).kind = "update"
      /\ Len(scn'.events) < Len(scn.events))
       => LET sequence == Head(scn.events).sequence IN
          /\ scn'.current_sequence = sequence
          /\ scn'.sequence_position = 1
          /\ sequence[1] \in {scn'.current_segment, scn'.next_segment}
          /\ \A k \in DOMAIN scn'.stack : scn'.stack[k] # "blocked"]_vars

\* The deadline the retrieval contract gives one similarity or tag query, in
\* clock ticks.
QueryDeadline == 2

\* C7 as stated: a similarity, contrast or tag call is never still waiting on
\* its query after the deadline has passed.
C7_NoWaitPastDeadline ==
  (query.pc = "running" /\ query.kind \in {"similar", "contrast", "tag"})
    => query.wait <= QueryDeadline

====
